---- MODULE Spec2Model ----
(***************************************************************************)
(* SQL -> SPARQL proxy of visualize-superset/sparql-proxy.                 *)
(*                                                                         *)
(*   sql/parser.py      SQLParser: sqlparse token stream -> ParsedQuery    *)
(*   sql/translator.py  SQLToSPARQLTranslator: ParsedQuery -> SPARQL text  *)
(*   sparql/namespaces.py  PREFIXES, get_prefix_declarations               *)
(*   sparql/client.py   get_sparql_client, close_sparql_client             *)
(*                                                                         *)
(* Python str values are TLA+ strings, read character by character with    *)
(* Head / Tail / SubSeq.  An Optional[T] field is a sequence of length at  *)
(* most one: <<>> is None and <<x>> is the value x.  A function that can   *)
(* raise returns [exc, val]: exc = "none" and val its result, or exc the   *)
(* exception class and val the message.                                    *)
(***************************************************************************)
EXTENDS Integers, Sequences, FiniteSets, TLC

VARIABLES entry, statement, tokens, token_idx, result, cube_mapping,
          translator, pc, outcome, raw_name, raw_value, queries, calls,
          _client, clients, tasks, log

\* sparql/client.py: the module-level singleton, the SPARQLClient objects,
\* the coroutines of the event loop and the calls that have returned
clientVars == <<_client, clients, tasks, log>>

vars == <<entry, statement, tokens, token_idx, result, cube_mapping,
          translator, pc, outcome, raw_name, raw_value, queries, calls, clientVars>>

(***************************************************************************)
(* Python values                                                           *)
(***************************************************************************)
None == <<>>
Some(x) == <<x>>

Ok(v) == [exc |-> "none", val |-> v]
Raise(e, msg) == [exc |-> e, val |-> msg]

\* A value of type Any held by WhereCondition.value: t is the Python type,
\* s the payload of a str (and the repr of a float or bool), n that of an int.
StrV(s) == [t |-> "str", s |-> s, n |-> 0]
IntV(n) == [t |-> "int", s |-> "", n |-> n]
FloatV(s) == [t |-> "float", s |-> s, n |-> 0]
BoolV(b) == [t |-> "bool", s |-> IF b THEN "True" ELSE "False", n |-> 0]
NoneV == [t |-> "NoneType", s |-> "None", n |-> 0]

\* str(value), as an f-string interpolates it
PyStr(value) ==
  IF value.t = "int" THEN ToString(value.n) ELSE value.s

(***************************************************************************)
(* str methods                                                             *)
(***************************************************************************)
StartsWith(s, p) == Len(s) >= Len(p) /\ SubSeq(s, 1, Len(p)) = p

\* s.replace(old, new) for a one-character old
RECURSIVE Replace(_, _, _)
Replace(s, old, new) ==
  IF s = "" THEN ""
  ELSE (IF Head(s) = old THEN new ELSE Head(s)) \o Replace(Tail(s), old, new)

IsDigit(ch) == ch \in {"0", "1", "2", "3", "4", "5", "6", "7", "8", "9"}

UpperChars == "ABCDEFGHIJKLMNOPQRSTUVWXYZ"
LowerChars == "abcdefghijklmnopqrstuvwxyz"

MapChar(ch, from, to) ==
  LET hit == {i \in 1..Len(from) : SubSeq(from, i, i) = ch}
  IN IF hit = {} THEN ch ELSE LET i == CHOOSE j \in hit : TRUE IN SubSeq(to, i, i)

RECURSIVE Lower(_)
Lower(s) ==
  IF s = "" THEN "" ELSE MapChar(Head(s), UpperChars, LowerChars) \o Lower(Tail(s))

RECURSIVE Upper(_)
Upper(s) ==
  IF s = "" THEN "" ELSE MapChar(Head(s), LowerChars, UpperChars) \o Upper(Tail(s))

IsSpace(ch) == ch \in {" ", "\n", "\t", "\r"}

RECURSIVE LStrip(_)
LStrip(s) == IF s # "" /\ IsSpace(Head(s)) THEN LStrip(Tail(s)) ELSE s

RECURSIVE RStrip(_)
RStrip(s) ==
  IF s # "" /\ IsSpace(SubSeq(s, Len(s), Len(s)))
  THEN RStrip(SubSeq(s, 1, Len(s) - 1)) ELSE s

\* s.strip()
Strip(s) == LStrip(RStrip(s))

\* sep.join(parts)
RECURSIVE Join(_, _)
Join(parts, sep) ==
  IF parts = <<>> THEN ""
  ELSE IF Len(parts) = 1 THEN parts[1]
  ELSE parts[1] \o sep \o Join(Tail(parts), sep)

\* positions at which p occurs in s
Occurrences(s, p) ==
  IF p = "" \/ Len(s) < Len(p) THEN {}
  ELSE {i \in 1..(Len(s) - Len(p) + 1) :
          /\ SubSeq(s, i, i) = Head(p)
          /\ SubSeq(s, i, i + Len(p) - 1) = p}

Contains(s, p) == p = "" \/ Occurrences(s, p) # {}

SeqMap(Op(_), s) == [i \in 1..Len(s) |-> Op(s[i])]

RECURSIVE SeqFilter(_, _)
SeqFilter(Test(_), s) ==
  IF s = <<>> THEN <<>>
  ELSE (IF Test(Head(s)) THEN <<Head(s)>> ELSE <<>>) \o SeqFilter(Test, Tail(s))

(***************************************************************************)
(* sparql/namespaces.py                                                    *)
(***************************************************************************)
PREFIXES ==
  << <<"cube", "https://cube.link/">>,
     <<"cubeView", "https://cube.link/view/">>,
     <<"cubeMeta", "https://cube.link/meta/">>,
     <<"schema", "http://schema.org/">>,
     <<"rdf", "http://www.w3.org/1999/02/22-rdf-syntax-ns#">>,
     <<"rdfs", "http://www.w3.org/2000/01/rdf-schema#">>,
     <<"xsd", "http://www.w3.org/2001/XMLSchema#">>,
     <<"dct", "http://purl.org/dc/terms/">>,
     <<"dcat", "http://www.w3.org/ns/dcat#">>,
     <<"skos", "http://www.w3.org/2004/02/skos/core#">>,
     <<"qb", "http://purl.org/linked-data/cube#">>,
     <<"owl", "http://www.w3.org/2002/07/owl#">>,
     <<"foaf", "http://xmlns.com/foaf/0.1/">>,
     <<"sh", "http://www.w3.org/ns/shacl#">>,
     <<"time", "http://www.w3.org/2006/time#">>,
     <<"geo", "http://www.opengis.net/ont/geosparql#">>,
     <<"qudt", "http://qudt.org/schema/qudt/">>,
     <<"adminVocab", "https://ld.admin.ch/vocabulary/">>,
     <<"adminCh", "https://ld.admin.ch/">> >>

PrefixNames == {PREFIXES[i][1] : i \in 1..Len(PREFIXES)}

PrefixLine(p) == "PREFIX " \o p[1] \o ": <" \o p[2] \o ">"

get_prefix_declarations == Join(SeqMap(PrefixLine, PREFIXES), "\n")

(***************************************************************************)
(* sql/parser.py: the intermediate representation                          *)
(***************************************************************************)
AggregateFunction == {"COUNT", "SUM", "AVG", "MIN", "MAX"}

ComparisonOperator ==
  {"=", "!=", "<", "<=", ">", ">=", "LIKE", "IN", "IS NULL", "IS NOT NULL"}

SelectColumn(name, alias, aggregate, distinct) ==
  [name |-> name, alias |-> alias, aggregate |-> aggregate, distinct |-> distinct]

WhereCondition(column, operator, value, is_and) ==
  [column |-> column, operator |-> operator, value |-> value, is_and |-> is_and]

OrderByColumn(column, ascending) == [column |-> column, ascending |-> ascending]

ParsedQuery ==
  [columns |-> <<>>, table |-> None, table_alias |-> None,
   where_conditions |-> <<>>, group_by |-> <<>>, having_conditions |-> <<>>,
   order_by |-> <<>>, limit |-> None, offset |-> None, distinct |-> FALSE]

(***************************************************************************)
(* sql/translator.py                                                       *)
(***************************************************************************)
CubeBase == "https://environment.ld.admin.ch/foen/cube/"

IsUri(s) == StartsWith(s, "http://") \/ StartsWith(s, "https://")

\* x or y, for an Optional[str] x
OrElse(opt, dflt) == IF opt = None \/ opt = Some("") THEN dflt ELSE opt[1]

\* variant: the v is put in front of every non-empty name
PrefixAlways(name) ==
  LET sanitized ==
        Replace(Replace(Replace(Replace(Replace(
          name, ".", "_"), "-", "_"), ":", "_"), "/", "_"), "#", "_")
  IN IF sanitized # "" THEN "v" \o sanitized ELSE sanitized

_sanitize_var_name(name) ==
  LET sanitized ==
        Replace(Replace(Replace(Replace(Replace(
          name, ".", "_"), "-", "_"), ":", "_"), "/", "_"), "#", "_")
  IN IF sanitized # "" /\ IsDigit(Head(sanitized)) THEN "v" \o sanitized
     ELSE sanitized

\* variant: the int / float test comes before the bool test
NumberBeforeBool(value) ==
  IF value.t = "str"
  THEN IF IsUri(value.s) THEN "<" \o value.s \o ">" ELSE "\"" \o value.s \o "\""
  ELSE IF value.t \in {"int", "float", "bool"} THEN PyStr(value)
  ELSE "\"" \o PyStr(value) \o "\""

_format_value(value) ==
  IF value.t = "str"
  THEN IF IsUri(value.s) THEN "<" \o value.s \o ">" ELSE "\"" \o value.s \o "\""
  ELSE IF value.t = "bool" THEN (IF value.s = "True" THEN "true" ELSE "false")
  ELSE IF value.t \in {"int", "float"} THEN PyStr(value)
  ELSE "\"" \o PyStr(value) \o "\""

\* variant: the test is `table_name is None`
TableIsNone(table_name) == table_name = None

\* not table_name
TableMissing(table_name) == table_name = None \/ table_name = Some("")

\* variant: the absolute-URI test comes before the mapping lookup
UriBeforeMapping(mapping, table_name) ==
  IF TableMissing(table_name)
  THEN Raise("TranslationError", "No table specified in query")
  ELSE IF IsUri(table_name[1]) THEN Ok(table_name[1])
  ELSE IF table_name[1] \in DOMAIN mapping THEN Ok(mapping[table_name[1]])
  ELSE Ok(CubeBase \o table_name[1])

_get_cube_uri(mapping, table_name) ==
  IF TableMissing(table_name)
  THEN Raise("TranslationError", "No table specified in query")
  ELSE IF table_name[1] \in DOMAIN mapping THEN Ok(mapping[table_name[1]])
  ELSE IF IsUri(table_name[1]) THEN Ok(table_name[1])
  ELSE Ok(CubeBase \o table_name[1])

_column_to_variable(col) == "?" \o _sanitize_var_name(OrElse(col.alias, col.name))

\* col_name.split(":", 1)[0]
RECURSIVE BeforeColon(_)
BeforeColon(s) ==
  IF s = "" \/ Head(s) = ":" THEN "" ELSE Head(s) \o BeforeColon(Tail(s))

\* variant: the prefix is not looked up in PREFIXES
AnyPrefixVerbatim(col_name) ==
  LET var_name == _sanitize_var_name(col_name)
  IN IF IsUri(col_name)
     THEN "  ?observation <" \o col_name \o "> ?" \o var_name \o " ."
     ELSE IF Contains(col_name, ":") /\ ~StartsWith(col_name, "?")
     THEN "  ?observation " \o col_name \o " ?" \o var_name \o " ."
     ELSE "  ?observation schema:" \o col_name \o " ?" \o var_name \o " ."

_column_to_pattern(col_name) ==
  LET var_name == _sanitize_var_name(col_name)
  IN IF IsUri(col_name)
     THEN "  ?observation <" \o col_name \o "> ?" \o var_name \o " ."
     ELSE IF /\ Contains(col_name, ":")
             /\ ~StartsWith(col_name, "?")
             /\ BeforeColon(col_name) \in PrefixNames
     THEN "  ?observation " \o col_name \o " ?" \o var_name \o " ."
     ELSE "  ?observation schema:" \o col_name \o " ?" \o var_name \o " ."

\* variant: the ordering comparisons format their value as = and != do
QuotedComparison(condition) ==
  IF condition.column = None
  THEN Raise("AttributeError", "'NoneType' object has no attribute 'replace'")
  ELSE
  LET var_name == "?" \o _sanitize_var_name(condition.column[1])
      op == condition.operator
  IN IF op \in {Some("="), Some("!="), Some("<"), Some("<="), Some(">"), Some(">=")}
     THEN Ok("  FILTER(" \o var_name \o " " \o op[1] \o " "
             \o _format_value(condition.value) \o ")")
     ELSE IF op = Some("LIKE")
     THEN IF condition.value.t # "str"
          THEN Raise("AttributeError",
                     "'" \o condition.value.t \o "' object has no attribute 'replace'")
          ELSE Ok("  FILTER(REGEX(" \o var_name \o ", \""
                  \o Replace(Replace(condition.value.s, "%", ".*"), "_", ".")
                  \o "\", \"i\"))")
     ELSE IF op = Some("IS NULL") THEN Ok("  FILTER(!BOUND(" \o var_name \o "))")
     ELSE IF op = Some("IS NOT NULL") THEN Ok("  FILTER(BOUND(" \o var_name \o "))")
     ELSE Ok("")

_condition_to_filter(condition) ==
  IF condition.column = None
  THEN Raise("AttributeError", "'NoneType' object has no attribute 'replace'")
  ELSE
  LET var_name == "?" \o _sanitize_var_name(condition.column[1])
      op == condition.operator
  IN IF op = Some("=")
     THEN Ok("  FILTER(" \o var_name \o " = " \o _format_value(condition.value) \o ")")
     ELSE IF op = Some("!=")
     THEN Ok("  FILTER(" \o var_name \o " != " \o _format_value(condition.value) \o ")")
     ELSE IF op \in {Some("<"), Some("<="), Some(">"), Some(">=")}
     THEN Ok("  FILTER(" \o var_name \o " " \o op[1] \o " "
             \o PyStr(condition.value) \o ")")
     ELSE IF op = Some("LIKE")
     THEN IF condition.value.t # "str"
          THEN Raise("AttributeError",
                     "'" \o condition.value.t \o "' object has no attribute 'replace'")
          ELSE Ok("  FILTER(REGEX(" \o var_name \o ", \""
                  \o Replace(Replace(condition.value.s, "%", ".*"), "_", ".")
                  \o "\", \"i\"))")
     ELSE IF op = Some("IS NULL") THEN Ok("  FILTER(!BOUND(" \o var_name \o "))")
     ELSE IF op = Some("IS NOT NULL") THEN Ok("  FILTER(BOUND(" \o var_name \o "))")
     ELSE Ok("")

IsWildcardOnly(query) ==
  Len(query.columns) = 1 /\ query.columns[1].name = "*"

SelectVariable(col) ==
  IF col.aggregate # None
  THEN LET agg_func == col.aggregate[1]
           inner_var == "?" \o _sanitize_var_name(col.name)
       IN "(" \o agg_func \o "(" \o (IF col.distinct THEN "DISTINCT " ELSE "")
          \o inner_var \o ") AS ?" \o OrElse(col.alias, col.name) \o "_"
          \o Lower(agg_func) \o ")"
  ELSE _column_to_variable(col)

\* variant: a distinct aggregate column also sets the keyword
DistinctFromColumns(query) ==
  LET distinct == IF query.distinct
                     \/ \E i \in 1..Len(query.columns) : query.columns[i].distinct
                  THEN "DISTINCT " ELSE ""
  IN IF IsWildcardOnly(query) THEN "SELECT " \o distinct \o "*"
     ELSE "SELECT " \o distinct \o Join(SeqMap(SelectVariable, query.columns), " ")

_build_select_clause(query) ==
  LET distinct == IF query.distinct THEN "DISTINCT " ELSE ""
  IN IF IsWildcardOnly(query) THEN "SELECT " \o distinct \o "*"
     ELSE "SELECT " \o distinct \o Join(SeqMap(SelectVariable, query.columns), " ")

NotStar(col) == col.name # "*"
PatternOf(col) == _column_to_pattern(col.name)
NonEmptyOk(r) == r.val # ""
ValOf(r) == r.val

\* the first exception a sequence of results holds, in order
RECURSIVE FirstRaise(_)
FirstRaise(rs) ==
  IF rs = <<>> THEN Ok("")
  ELSE IF Head(rs).exc # "none" THEN Head(rs) ELSE FirstRaise(Tail(rs))

\* variant: the observation pattern is appended inside the column loop
AnchorPerColumn(mapping, query) ==
  LET cube_uri == _get_cube_uri(mapping, query.table)
      filters == SeqMap(_condition_to_filter, query.where_conditions)
      anchor == << "  ?observation a cube:Observation ;",
                   "    cube:observedBy <" \o cube_uri.val \o "> ." >>
      AnchoredPattern(col) == Join(anchor \o <<PatternOf(col)>>, "\n")
  IN IF cube_uri.exc # "none" THEN cube_uri
     ELSE IF FirstRaise(filters).exc # "none" THEN FirstRaise(filters)
     ELSE Ok(Join(
            anchor
            \o SeqMap(AnchoredPattern, SeqFilter(NotStar, query.columns))
            \o SeqMap(ValOf, SeqFilter(NonEmptyOk, filters)),
            "\n"))

\* variant: aggregate columns add no pattern
PatternsForPlainOnly(mapping, query) ==
  LET cube_uri == _get_cube_uri(mapping, query.table)
      filters == SeqMap(_condition_to_filter, query.where_conditions)
      Plain(col) == col.aggregate = None /\ col.name # "*"
  IN IF cube_uri.exc # "none" THEN cube_uri
     ELSE IF FirstRaise(filters).exc # "none" THEN FirstRaise(filters)
     ELSE Ok(Join(
            << "  ?observation a cube:Observation ;",
               "    cube:observedBy <" \o cube_uri.val \o "> ." >>
            \o SeqMap(PatternOf, SeqFilter(Plain, query.columns))
            \o SeqMap(ValOf, SeqFilter(NonEmptyOk, filters)),
            "\n"))

_build_where_clause(mapping, query) ==
  LET cube_uri == _get_cube_uri(mapping, query.table)
      filters == SeqMap(_condition_to_filter, query.where_conditions)
  IN IF cube_uri.exc # "none" THEN cube_uri
     ELSE IF FirstRaise(filters).exc # "none" THEN FirstRaise(filters)
     ELSE Ok(Join(
            << "  ?observation a cube:Observation ;",
               "    cube:observedBy <" \o cube_uri.val \o "> ." >>
            \o SeqMap(PatternOf, SeqFilter(NotStar, query.columns))
            \o SeqMap(ValOf, SeqFilter(NonEmptyOk, filters)),
            "\n"))

IsAggregate(col) == col.aggregate # None

\* variant: the wildcard counts as a column to group by
IsNotAggregate(col) == col.aggregate = None

IsPlainColumn(col) == col.aggregate = None /\ col.name # "*"
GroupVarOfColumn(col) == "?" \o _sanitize_var_name(col.name)
GroupVar(name) == "?" \o _sanitize_var_name(name)

\* variant: the selected columns are looked at before query.group_by
InferenceFirst(query) ==
  LET has_aggregates == \E i \in 1..Len(query.columns) : IsAggregate(query.columns[i])
      non_aggregate_cols == SeqFilter(IsPlainColumn, query.columns)
  IN IF has_aggregates /\ non_aggregate_cols # <<>>
     THEN "GROUP BY " \o Join(SeqMap(GroupVarOfColumn, non_aggregate_cols), " ")
     ELSE IF query.group_by = <<>> THEN ""
     ELSE "GROUP BY " \o Join(SeqMap(GroupVar, query.group_by), " ")

_build_group_by_clause(query) ==
  IF query.group_by = <<>>
  THEN LET has_aggregates == \E i \in 1..Len(query.columns) : IsAggregate(query.columns[i])
           non_aggregate_cols == SeqFilter(IsPlainColumn, query.columns)
       IN IF has_aggregates /\ non_aggregate_cols # <<>>
          THEN "GROUP BY " \o Join(SeqMap(GroupVarOfColumn, non_aggregate_cols), " ")
          ELSE ""
  ELSE "GROUP BY " \o Join(SeqMap(GroupVar, query.group_by), " ")

OrderExpr(order_col) ==
  LET var_name == "?" \o _sanitize_var_name(order_col.column)
  IN IF order_col.ascending THEN var_name ELSE "DESC(" \o var_name \o ")"

_build_order_by_clause(query) ==
  IF query.order_by = <<>> THEN ""
  ELSE "ORDER BY " \o Join(SeqMap(OrderExpr, query.order_by), " ")

\* variant: the tests are `if query.limit` and `if query.offset`
LimitIfTruthy(query) ==
  Join((IF query.limit # None /\ query.limit # Some(0)
        THEN <<"LIMIT " \o ToString(query.limit[1])>> ELSE <<>>)
       \o (IF query.offset # None /\ query.offset # Some(0)
           THEN <<"OFFSET " \o ToString(query.offset[1])>> ELSE <<>>),
       " ")

_build_limit_offset(query) ==
  Join((IF query.limit # None THEN <<"LIMIT " \o ToString(query.limit[1])>> ELSE <<>>)
       \o (IF query.offset # None THEN <<"OFFSET " \o ToString(query.offset[1])>> ELSE <<>>),
       " ")

\* variant: a HAVING line is written for having_conditions
TranslateWithHaving(mapping, parsed_query) ==
  LET where_clause == _build_where_clause(mapping, parsed_query)
      having == SeqMap(_condition_to_filter, parsed_query.having_conditions)
  IN IF where_clause.exc # "none" THEN where_clause
     ELSE IF FirstRaise(having).exc # "none" THEN FirstRaise(having)
     ELSE Ok(Strip(
            get_prefix_declarations \o "\n\n"
            \o _build_select_clause(parsed_query) \o "\nWHERE {\n"
            \o where_clause.val \o "\n}\n"
            \o _build_group_by_clause(parsed_query) \o "\n"
            \o (IF having = <<>> THEN ""
                ELSE "HAVING" \o Join(SeqMap(ValOf, having), "") \o "\n")
            \o _build_order_by_clause(parsed_query) \o "\n"
            \o _build_limit_offset(parsed_query) \o "\n"))

translate(mapping, parsed_query) ==
  LET where_clause == _build_where_clause(mapping, parsed_query)
  IN IF where_clause.exc # "none" THEN where_clause
     ELSE Ok(Strip(
            get_prefix_declarations \o "\n\n"
            \o _build_select_clause(parsed_query) \o "\nWHERE {\n"
            \o where_clause.val \o "\n}\n"
            \o _build_group_by_clause(parsed_query) \o "\n"
            \o _build_order_by_clause(parsed_query) \o "\n"
            \o _build_limit_offset(parsed_query) \o "\n"))

(***************************************************************************)
(* sqlparse tokens, as the parser reads them.  cls is the token's class    *)
(* (Token, Identifier, IdentifierList, Function, Parenthesis, Where,       *)
(* Comparison), ttype its token type ("None" for a group), value its text, *)
(* real_name and alias what get_real_name() and get_alias() return, and    *)
(* tokens its children.                                                    *)
(***************************************************************************)
Tok(cls, ttype, value, real_name, alias, toks) ==
  [cls |-> cls, ttype |-> ttype, value |-> value, real_name |-> real_name,
   alias |-> alias, tokens |-> toks]

\* tokens[idx], idx counted from 0 as in the source
At(toks, idx) == toks[idx + 1]

IsWhitespace(t) == t.ttype = "Text.Whitespace"
NotWhitespace(t) == ~IsWhitespace(t)

IsKeyword(t, words) == t.ttype = "Keyword" /\ Upper(t.value) \in words

\* IdentifierList.get_identifiers()
IsListItem(t) == ~IsWhitespace(t) /\ t.ttype # "Punctuation"
get_identifiers(t) == SeqFilter(IsListItem, t.tokens)

\* int(text): an optional sign and decimal digits, ValueError otherwise
RECURSIVE DigitsValue(_, _)
DigitsValue(s, acc) ==
  IF s = "" THEN acc
  ELSE DigitsValue(Tail(s),
         10 * acc + (CHOOSE d \in 0..9 : SubSeq("0123456789", d + 1, d + 1) = Head(s)))

RECURSIVE AllDigits(_)
AllDigits(s) == s = "" \/ (IsDigit(Head(s)) /\ AllDigits(Tail(s)))

ParseInt(text) ==
  LET s == Strip(text)
      body == IF s # "" /\ Head(s) \in {"+", "-"} THEN Tail(s) ELSE s
  IN IF body = "" \/ ~AllDigits(body)
     THEN Raise("ValueError", "invalid literal for int() with base 10: '" \o text \o "'")
     ELSE Ok(IF Head(s) = "-" THEN 0 - DigitsValue(body, 0) ELSE DigitsValue(body, 0))

\* str(float(text)) for a literal of the form digits.digits
RECURSIVE StripZerosRight(_)
StripZerosRight(s) ==
  IF Len(s) > 1 /\ SubSeq(s, Len(s), Len(s)) = "0"
  THEN StripZerosRight(SubSeq(s, 1, Len(s) - 1)) ELSE s

RECURSIVE StripZerosLeft(_)
StripZerosLeft(s) ==
  IF Len(s) > 1 /\ Head(s) = "0" THEN StripZerosLeft(Tail(s)) ELSE s

RECURSIVE AfterDot(_)
AfterDot(s) == IF s = "" THEN "" ELSE IF Head(s) = "." THEN Tail(s) ELSE AfterDot(Tail(s))

RECURSIVE BeforeDot(_)
BeforeDot(s) == IF s = "" \/ Head(s) = "." THEN "" ELSE Head(s) \o BeforeDot(Tail(s))

FloatRepr(text) ==
  StripZerosLeft(IF BeforeDot(text) = "" THEN "0" ELSE BeforeDot(text)) \o "."
  \o StripZerosRight(IF AfterDot(text) = "" THEN "0" ELSE AfterDot(text))

\* value.strip("'\"")
RECURSIVE StripQuotesLeft(_)
StripQuotesLeft(s) ==
  IF s # "" /\ Head(s) \in {"'", "\""} THEN StripQuotesLeft(Tail(s)) ELSE s

RECURSIVE StripQuotesRight(_)
StripQuotesRight(s) ==
  IF s # "" /\ SubSeq(s, Len(s), Len(s)) \in {"'", "\""}
  THEN StripQuotesRight(SubSeq(s, 1, Len(s) - 1)) ELSE s

StripQuotes(s) == StripQuotesLeft(StripQuotesRight(s))

(***************************************************************************)
(* sql/parser.py: SQLParser.  A clause parser returns [exc, idx, result].  *)
(***************************************************************************)
Step(idx, res) == [exc |-> "none", val |-> "", idx |-> idx, result |-> res]
StepRaise(e, msg, idx, res) == [exc |-> e, val |-> msg, idx |-> idx, result |-> res]

\* get_real_name() of a token that has a name (every Identifier and Function
\* the statements below hold has one)
RealName(t) == t.real_name[1]

\* t.get_real_name() or str(t)
RealNameOrText(t) == IF t.real_name = None \/ t.real_name = Some("") THEN t.value
                     ELSE t.real_name[1]

\* the loop over the tokens inside the parentheses of a function call
RECURSIVE InnerScan(_, _)
InnerScan(inner_tokens, acc) ==
  IF inner_tokens = <<>> THEN acc
  ELSE LET inner == Head(inner_tokens)
           next == IF IsKeyword(inner, {"DISTINCT"})
                   THEN [acc EXCEPT !.distinct = TRUE]
                   ELSE IF inner.cls = "Identifier"
                   THEN [acc EXCEPT !.inner_col = RealName(inner)]
                   ELSE IF inner.value \notin {"(", ")"}
                   THEN [acc EXCEPT !.inner_col = inner.value]
                   ELSE acc
       IN InnerScan(Tail(inner_tokens), next)

RECURSIVE FuncScan(_, _)
FuncScan(func_tokens, acc) ==
  IF func_tokens = <<>> THEN acc
  ELSE FuncScan(Tail(func_tokens),
         IF Head(func_tokens).cls = "Parenthesis"
         THEN InnerScan(SeqFilter(NotWhitespace, Head(func_tokens).tokens), acc)
         ELSE acc)

_parse_function(func, alias) ==
  LET func_name == Upper(RealName(func))
      scan == FuncScan(func.tokens, [inner_col |-> "*", distinct |-> FALSE])
  IN IF func_name \in AggregateFunction
     THEN SelectColumn(scan.inner_col, alias, Some(func_name), scan.distinct)
     ELSE SelectColumn(func.value, alias, None, FALSE)

IsFunction(t) == t.cls = "Function"

_parse_identifier(identifier) ==
  LET funcs == SeqFilter(IsFunction, identifier.tokens)
  IN IF funcs # <<>> THEN _parse_function(funcs[1], identifier.alias)
     ELSE SelectColumn(RealNameOrText(identifier), identifier.alias, None, FALSE)

\* the index after the first token satisfying Test at or after idx, or
\* len(tokens) when there is none
RECURSIVE SkipPast(_, _, _)
SkipPast(Test(_), toks, idx) ==
  IF idx >= Len(toks) THEN idx
  ELSE IF Test(At(toks, idx)) THEN idx + 1
  ELSE SkipPast(Test, toks, idx + 1)

IsSelectKeyword(t) == t.ttype = "Keyword.DML" /\ Upper(t.value) = "SELECT"
IsFromKeyword(t) == IsKeyword(t, {"FROM"})

_parse_select_clause(toks, idx0, res0) ==
  LET idx1 == SkipPast(IsSelectKeyword, toks, idx0)
      hasDistinct == idx1 < Len(toks) /\ IsKeyword(At(toks, idx1), {"DISTINCT"})
      idx2 == IF hasDistinct THEN idx1 + 1 ELSE idx1
      res1 == [res0 EXCEPT !.distinct = IF hasDistinct THEN TRUE ELSE @]
  IN IF idx2 >= Len(toks) THEN Step(idx2, res1)
     ELSE LET token == At(toks, idx2)
          IN IF token.ttype = "Wildcard"
             THEN Step(idx2 + 1, [res1 EXCEPT !.columns =
                                    Append(@, SelectColumn("*", None, None, FALSE))])
             ELSE IF token.cls = "IdentifierList"
             THEN Step(idx2 + 1, [res1 EXCEPT !.columns =
                                    @ \o SeqMap(_parse_identifier, get_identifiers(token))])
             ELSE IF token.cls = "Identifier"
             THEN Step(idx2 + 1, [res1 EXCEPT !.columns =
                                    Append(@, _parse_identifier(token))])
             ELSE IF token.cls = "Function"
             THEN Step(idx2 + 1, [res1 EXCEPT !.columns =
                                    Append(@, _parse_function(token, None))])
             ELSE Step(idx2, res1)

_parse_from_clause(toks, idx0, res0) ==
  LET idx1 == SkipPast(IsFromKeyword, toks, idx0)
  IN IF idx1 >= Len(toks) THEN Step(idx1, res0)
     ELSE LET token == At(toks, idx1)
          IN IF token.cls = "Identifier"
             THEN Step(idx1 + 1, [res0 EXCEPT !.table = token.real_name,
                                              !.table_alias = token.alias])
             ELSE Step(idx1 + 1, [res0 EXCEPT !.table = Some(token.value)])

\* the loop over the tokens of one comparison; acc holds column, operator,
\* value and the first exception
RECURSIVE ComparisonScan(_, _)
ComparisonScan(toks, acc) ==
  IF toks = <<>> \/ acc.exc # "none" THEN acc
  ELSE LET token == Head(toks)
           named == IF token.cls = "Identifier" THEN token.real_name
                    ELSE Some(token.value)
           next ==
             IF token.cls = "Identifier" \/ token.ttype = "Name"
             THEN IF acc.column = None
                  THEN [acc EXCEPT !.column = named]
                  ELSE [acc EXCEPT !.value = IF named = None THEN NoneV
                                             ELSE StrV(named[1])]
             ELSE IF token.ttype = "Operator.Comparison"
             THEN IF token.value \in ComparisonOperator
                  THEN [acc EXCEPT !.operator = Some(token.value)]
                  ELSE [acc EXCEPT !.exc = "ValueError",
                          !.val = "'" \o token.value
                                  \o "' is not a valid ComparisonOperator"]
             ELSE IF token.ttype \in {"Literal.String.Single", "Literal.String.Double"}
             THEN [acc EXCEPT !.value = StrV(StripQuotes(token.value))]
             ELSE IF token.ttype \in {"Literal.Number.Integer", "Literal.Number.Float"}
             THEN IF Contains(token.value, ".")
                  THEN [acc EXCEPT !.value = FloatV(FloatRepr(token.value))]
                  ELSE IF ParseInt(token.value).exc # "none"
                  THEN [acc EXCEPT !.exc = "ValueError",
                                   !.val = ParseInt(token.value).val]
                  ELSE [acc EXCEPT !.value = IntV(ParseInt(token.value).val)]
             ELSE acc
       IN ComparisonScan(Tail(toks), next)

_parse_comparison(comparison) ==
  LET acc == ComparisonScan(SeqFilter(NotWhitespace, comparison.tokens),
               [exc |-> "none", val |-> "", column |-> None, operator |-> None,
                value |-> NoneV])
  IN IF acc.exc # "none" THEN Raise(acc.exc, acc.val)
     ELSE Ok(WhereCondition(acc.column, acc.operator, acc.value, TRUE))

IsComparison(t) == t.cls = "Comparison"

_parse_conditions(where_clause) ==
  LET conds == SeqMap(_parse_comparison, SeqFilter(IsComparison, where_clause.tokens))
  IN IF FirstRaise(conds).exc # "none" THEN FirstRaise(conds)
     ELSE Ok(SeqMap(ValOf, conds))

RECURSIVE _parse_where_clause(_, _, _)
_parse_where_clause(toks, idx, res) ==
  IF idx >= Len(toks) THEN Step(idx, res)
  ELSE LET token == At(toks, idx)
       IN IF token.cls = "Where"
          THEN LET conditions == _parse_conditions(token)
               IN IF conditions.exc # "none"
                  THEN StepRaise(conditions.exc, conditions.val, idx, res)
                  ELSE Step(idx + 1, [res EXCEPT !.where_conditions = conditions.val])
          ELSE IF IsKeyword(token, {"GROUP", "ORDER", "LIMIT", "HAVING"})
          THEN Step(idx, res)
          ELSE _parse_where_clause(toks, idx + 1, res)

GroupName(identifier) == RealNameOrText(identifier)

RECURSIVE _parse_group_by_clause(_, _, _)
_parse_group_by_clause(toks, idx, res) ==
  IF idx >= Len(toks) THEN Step(idx, res)
  ELSE LET token == At(toks, idx)
       IN IF IsKeyword(token, {"GROUP"})
          THEN LET idx1 == idx + 1
                   idx2 == IF idx1 < Len(toks) /\ At(toks, idx1).ttype = "Keyword"
                           THEN idx1 + 1 ELSE idx1
               IN IF idx2 >= Len(toks) THEN Step(idx2, res)
                  ELSE LET t == At(toks, idx2)
                       IN IF t.cls = "IdentifierList"
                          THEN Step(idx2 + 1, [res EXCEPT !.group_by =
                                 @ \o SeqMap(GroupName, get_identifiers(t))])
                          ELSE IF t.cls = "Identifier"
                          THEN Step(idx2 + 1, [res EXCEPT !.group_by =
                                 Append(@, RealName(t))])
                          ELSE Step(idx2 + 1, [res EXCEPT !.group_by =
                                 Append(@, t.value)])
          ELSE IF IsKeyword(token, {"ORDER", "LIMIT", "HAVING"})
          THEN Step(idx, res)
          ELSE _parse_group_by_clause(toks, idx + 1, res)

_parse_having_clause(toks, idx, res) == Step(idx, res)

IsDescKeyword(t) == IsKeyword(t, {"DESC"})

OrderOf(identifier) ==
  OrderByColumn(RealNameOrText(identifier),
                SeqFilter(IsDescKeyword, identifier.tokens) = <<>>)

OrderOfSingle(identifier) ==
  OrderByColumn(RealName(identifier),
                SeqFilter(IsDescKeyword, identifier.tokens) = <<>>)

RECURSIVE _parse_order_by_clause(_, _, _)
_parse_order_by_clause(toks, idx, res) ==
  IF idx >= Len(toks) THEN Step(idx, res)
  ELSE LET token == At(toks, idx)
       IN IF IsKeyword(token, {"ORDER"})
          THEN LET idx1 == idx + 1
                   idx2 == IF idx1 < Len(toks) /\ At(toks, idx1).ttype = "Keyword"
                           THEN idx1 + 1 ELSE idx1
               IN IF idx2 >= Len(toks) THEN Step(idx2, res)
                  ELSE LET t == At(toks, idx2)
                       IN IF t.cls = "IdentifierList"
                          THEN Step(idx2 + 1, [res EXCEPT !.order_by =
                                 @ \o SeqMap(OrderOf, get_identifiers(t))])
                          ELSE IF t.cls = "Identifier"
                          THEN Step(idx2 + 1, [res EXCEPT !.order_by =
                                 Append(@, OrderOfSingle(t))])
                          ELSE Step(idx2 + 1, res)
          ELSE IF IsKeyword(token, {"LIMIT"})
          THEN Step(idx, res)
          ELSE _parse_order_by_clause(toks, idx + 1, res)

\* result.limit = int(tokens[idx].value) under try / except ValueError: pass
IntOrKeep(toks, idx, old) ==
  IF ParseInt(At(toks, idx).value).exc = "none"
  THEN Some(ParseInt(At(toks, idx).value).val) ELSE old

RECURSIVE _parse_limit_clause(_, _, _)
_parse_limit_clause(toks, idx, res) ==
  IF idx >= Len(toks) THEN Step(idx, res)
  ELSE LET token == At(toks, idx)
       IN IF IsKeyword(token, {"LIMIT"})
          THEN IF idx + 1 < Len(toks)
               THEN Step(idx + 2, [res EXCEPT !.limit = IntOrKeep(toks, idx + 1, @)])
               ELSE Step(idx + 1, res)
          ELSE IF IsKeyword(token, {"OFFSET"})
          THEN IF idx + 1 < Len(toks)
               THEN _parse_limit_clause(toks, idx + 3,
                      [res EXCEPT !.offset = IntOrKeep(toks, idx + 1, @)])
               ELSE _parse_limit_clause(toks, idx + 2, res)
          ELSE _parse_limit_clause(toks, idx + 1, res)

(***************************************************************************)
(* sqlparse.parse: the statements the SQL texts of the model parse to      *)
(***************************************************************************)
Leaf(ttype, value) == Tok("Token", ttype, value, None, None, <<>>)
KW(value) == Leaf("Keyword", value)
WS == Leaf("Text.Whitespace", " ")
Punct(value) == Leaf("Punctuation", value)
NameT(value) == Leaf("Name", value)
Num(value) == Leaf("Literal.Number.Integer", value)
Flt(value) == Leaf("Literal.Number.Float", value)
Str(value) == Leaf("Literal.String.Single", value)
Cmp(value) == Leaf("Operator.Comparison", value)

ValueOf(t) == t.value
TextOf(toks) == Join(SeqMap(ValueOf, toks), "")

Group(cls, real_name, alias, toks) == Tok(cls, "None", TextOf(toks), real_name, alias, toks)

\* the tokens with one whitespace token between neighbours
RECURSIVE Spaced(_)
Spaced(toks) ==
  IF Len(toks) <= 1 THEN toks ELSE <<Head(toks), WS>> \o Spaced(Tail(toks))

Ident(name) == Group("Identifier", Some(name), None, <<NameT(name)>>)
\* a.b: the real name is the part after the dot
Dotted(parent, name) ==
  Group("Identifier", Some(name), None, <<NameT(parent), Punct("."), NameT(name)>>)
Aliased(t, alias) ==
  Group("Identifier", t.real_name, Some(alias), <<t, WS, KW("AS"), WS, Ident(alias)>>)
Ordered(name, direction) ==
  Group("Identifier", Some(name), None,
        <<NameT(name), WS, Leaf("Keyword.Order", direction)>>)
Paren(toks) == Group("Parenthesis", None, None, <<Punct("(")>> \o toks \o <<Punct(")")>>)
Func(name, args) == Group("Function", Some(name), None, <<Ident(name), Paren(args)>>)
List(a, b) == Group("IdentifierList", None, None, <<a, Punct(","), WS, b>>)
Compare(left, op, right) ==
  Group("Comparison", None, None, <<left, WS, Cmp(op), WS, right>>)

SelectHeads ==
  { <<Leaf("Keyword.DML", "SELECT"), Leaf("Wildcard", "*")>>,
    <<Leaf("Keyword.DML", "SELECT"), KW("DISTINCT"), Ident("region")>>,
    <<Leaf("Keyword.DML", "select"),
      List(Ident("region"),
           Aliased(Func("COUNT", <<KW("DISTINCT"), WS, Ident("value")>>), "n"))>>,
    <<Leaf("Keyword.DML", "SELECT"), Func("count", <<Leaf("Wildcard", "*")>>)>>,
    <<Leaf("Keyword.DML", "SELECT")>>,
    <<Leaf("Keyword.DML", "DELETE")>> }

FromForms ==
  { <<>>,
    <<KW("FROM")>>,
    <<KW("FROM"), Ident("co2")>>,
    <<KW("from"), Aliased(Ident("emissions"), "e")>> }

WhereForms ==
  { <<>>,
    <<Compare(Ident("year"), "=", Num("2020"))>>,
    <<Compare(Ident("a"), "<>", Num("1"))>>,
    <<Compare(Ident("name"), "like", Str("'x%'"))>>,
    <<Compare(Ident("name"), "LIKE", Num("5"))>>,
    <<Compare(Ident("name"), "=", Str("'x\" || \"1\" = \"1'"))>>,
    <<Compare(Dotted("t", "v"), ">=", Flt("1.50")), KW("AND"),
      Compare(Ident("name"), "!=", Str("'it''s'"))>>,
    <<Compare(Ident("year"), "=", Num("2020")), KW("OR"),
      Compare(Ident("region"), "=", Ident("canton"))>> }

GroupForms ==
  { <<>>,
    <<KW("GROUP"), KW("BY"), Ident("region")>>,
    <<KW("GROUP BY"), Ident("region")>> }

OrderForms ==
  { <<>>,
    <<KW("ORDER"), KW("BY"), Ordered("year", "DESC")>>,
    <<KW("ORDER BY"), Ident("year")>> }

LimitForms ==
  { <<>>,
    <<KW("LIMIT"), Num("5")>>,
    <<KW("OFFSET"), Num("10")>>,
    <<KW("LIMIT"), Num("5"), KW("OFFSET"), Num("10")>>,
    <<KW("offset"), Num("10"), KW("limit"), Num("5")>>,
    <<KW("LIMIT"), Ident("many")>>,
    <<KW("LIMIT"), Str("'many'"), KW("OFFSET"), Num("10")>>,
    <<KW("OFFSET"), Flt("1.5")>>,
    <<KW("LIMIT")>> }

\* sqlparse groups WHERE and what follows it, up to the next of these
\* keywords, into one Where token
ClosesWhere(t) ==
  IsKeyword(t, {"ORDER", "GROUP", "ORDER BY", "GROUP BY", "LIMIT", "UNION",
                "UNION ALL", "EXCEPT", "HAVING", "RETURNING", "INTO"})

RECURSIVE UpToClose(_)
UpToClose(toks) ==
  IF toks = <<>> \/ ClosesWhere(Head(toks)) THEN <<>>
  ELSE <<Head(toks)>> \o UpToClose(Tail(toks))

Statement(head, from, where, rest) ==
  IF where = <<>> THEN Spaced(head \o from \o rest)
  ELSE LET inside == UpToClose(rest)
           after == SubSeq(rest, Len(inside) + 1, Len(rest))
       IN Spaced(head \o from
                 \o <<Group("Where", None, None, Spaced(<<KW("WHERE")>> \o where \o inside))>>
                 \o after)

\* every head, FROM and WHERE form with a short tail; every combination of
\* GROUP BY, ORDER BY, LIMIT and OFFSET forms after a plain head
Statements ==
  { Statement(h, f, w, l) :
      h \in SelectHeads, f \in FromForms, w \in WhereForms,
      l \in {<<>>, <<KW("LIMIT"), Num("5")>>} }
  \cup
  { Statement(<<Leaf("Keyword.DML", "SELECT"), Leaf("Wildcard", "*")>>, f, w, g \o o \o l) :
      f \in {<<KW("FROM"), Ident("co2")>>},
      w \in {<<>>, <<Compare(Ident("year"), "=", Num("2020"))>>},
      g \in GroupForms, o \in OrderForms, l \in LimitForms }

\* Statement.get_type()
get_type(stmt) ==
  LET first == SeqFilter(NotWhitespace, stmt)
  IN IF first # <<>> /\ first[1].ttype \in {"Keyword.DML", "Keyword.DDL"}
     THEN Upper(first[1].value) ELSE "UNKNOWN"

(***************************************************************************)
(* ParsedQuery values handed to translate directly                         *)
(***************************************************************************)
MaxCols == 2
MaxConds == 2

SeqsUpTo(S, n) == UNION {[1..k -> S] : k \in 0..n}

Cols ==
  { SelectColumn("*", None, None, FALSE),
    SelectColumn("region", None, None, FALSE),
    SelectColumn("value", Some("n"), Some("COUNT"), TRUE),
    SelectColumn("*", None, Some("COUNT"), FALSE),
    SelectColumn("schema:name", Some("1.x"), None, FALSE),
    SelectColumn("http://ex.org/p#v", None, Some("AVG"), FALSE) }

Conds ==
  { WhereCondition(Some("year"), Some("="), IntV(2020), TRUE),
    WhereCondition(Some("name"), Some("!="), StrV("x"), FALSE),
    WhereCondition(Some("a.b"), Some("<"), IntV(5), TRUE),
    WhereCondition(Some("v"), Some("<="), FloatV("1.5"), TRUE),
    WhereCondition(Some("v"), Some(">"), StrV("2020"), TRUE),
    WhereCondition(Some("v"), Some(">="), IntV(0), TRUE),
    WhereCondition(Some("name"), Some("LIKE"), StrV("a%b_c"), TRUE),
    WhereCondition(Some("name"), Some("LIKE"), IntV(5), TRUE),
    WhereCondition(Some("name"), Some("IN"), StrV("x"), TRUE),
    WhereCondition(Some("name"), Some("IS NULL"), NoneV, TRUE),
    WhereCondition(Some("name"), Some("IS NOT NULL"), NoneV, TRUE),
    WhereCondition(None, Some("="), IntV(1), TRUE),
    WhereCondition(Some("u"), Some("="), StrV("https://ex.org/v"), TRUE),
    WhereCondition(Some("flag"), Some("="), BoolV(TRUE), TRUE),
    WhereCondition(Some("note"), Some("="), StrV("cube:observedBy <urn:m>"), TRUE) }

Tables == {None, Some(""), Some("co2"), Some("emissions"), Some("http://ex.org/cube/1")}

Mappings ==
  { None,
    Some(<<>>),
    Some(("emissions" :> "urn:m") @@ ("http://ex.org/cube/1" :> "https://ex.org/mapped")) }

Tails ==
  { [group_by |-> g, order_by |-> o, limit |-> l, offset |-> f, distinct |-> d] :
      g \in {<<>>, <<"region">>, <<"region", "a-b">>},
      o \in {<<>>, <<OrderByColumn("year", FALSE)>>,
             <<OrderByColumn("region", TRUE), OrderByColumn("2d", FALSE)>>},
      l \in {None, Some(0), Some(10)},
      f \in {None, Some(0)},
      d \in BOOLEAN }

PlainTail == [group_by |-> <<>>, order_by |-> <<>>, limit |-> None, offset |-> None,
              distinct |-> FALSE]

Query(cols, table, alias, conds, tail) ==
  [columns |-> cols, table |-> table, table_alias |-> alias,
   where_conditions |-> conds, group_by |-> tail.group_by, having_conditions |-> <<>>,
   order_by |-> tail.order_by, limit |-> tail.limit, offset |-> tail.offset,
   distinct |-> tail.distinct]

\* every column list with every table; every condition list; every
\* combination of GROUP BY, ORDER BY, LIMIT, OFFSET and DISTINCT; table
\* aliases, HAVING conditions and OR flags
ParsedQueries ==
  { Query(c, t, None, <<>>, PlainTail) : c \in SeqsUpTo(Cols, MaxCols), t \in Tables }
  \cup
  { Query(c, t, None, w, PlainTail) :
      c \in {<<SelectColumn("region", None, None, FALSE)>>},
      t \in {None, Some("emissions")}, w \in SeqsUpTo(Conds, MaxConds) }
  \cup
  { Query(c, t, a, <<>>, tail) :
      c \in {<<SelectColumn("*", None, None, FALSE)>>,
             <<SelectColumn("region", None, None, FALSE),
               SelectColumn("value", Some("n"), Some("COUNT"), TRUE)>>},
      t \in {Some(""), Some("co2")}, a \in {None, Some("e")}, tail \in Tails }
  \cup
  { [Query(<<SelectColumn("region", None, None, FALSE),
             SelectColumn("value", Some("n"), Some("COUNT"), TRUE)>>,
           Some("co2"), a, w, PlainTail) EXCEPT !.having_conditions = h] :
      a \in {None, Some("e")},
      w \in {<<>>,
             <<WhereCondition(Some("year"), Some("="), IntV(2020), FALSE)>>,
             <<WhereCondition(Some("year"), Some("="), IntV(2020), TRUE),
               WhereCondition(Some("name"), Some("LIKE"), StrV("a%"), FALSE)>>},
      h \in {<<>>, <<WhereCondition(Some("n"), Some(">"), IntV(5), TRUE)>>} }

(***************************************************************************)
(* Names handed to _sanitize_var_name directly: every string of at most    *)
(* MaxNameLen of these characters                                          *)
(***************************************************************************)
MaxNameLen == 3

NameChars == {"a", "v", "1", "_", ".", "-", ":", "/", "#"}

RECURSIVE NamesOfLen(_)
NamesOfLen(n) ==
  IF n = 0 THEN {""} ELSE {ch \o w : ch \in NameChars, w \in NamesOfLen(n - 1)}

Names == UNION {NamesOfLen(n) : n \in 0..MaxNameLen}

(***************************************************************************)
(* Values handed to _format_value and column names handed to              *)
(* _column_to_pattern directly                                             *)
(***************************************************************************)
Values ==
  { StrV(""), StrV("x"), StrV("True"), StrV("5"), StrV("http://ex.org/v"),
    StrV("https://ex.org/v"), StrV("http:/ex.org"), StrV("HTTP://ex.org"),
    StrV("urn:x"), StrV(" https://ex.org/v"),
    BoolV(TRUE), BoolV(FALSE),
    IntV(0), IntV(1), IntV(2020), IntV(-3),
    FloatV("1.5"), FloatV("0.0"), FloatV("-2.25"), FloatV("1e+20"),
    NoneV }

ColumnNames ==
  { "region", "", "a.b", "http://ex.org/p", "https://ex.org/p#v", "http:/ex.org",
    "schema:name", "cube:observedBy", "schema:", "schema:a:b", "foo:bar",
    "Schema:name", ":name", "?schema:name", "?x", "a b", "schema" }

(***************************************************************************)
(* The calls.  entry is the function called: translate_sql_to_sparql(sql,  *)
(* cube_mapping), SQLToSPARQLTranslator(cube_mapping).translate(query),    *)
(* _sanitize_var_name(raw_name), _format_value(raw_value) or               *)
(* _column_to_pattern(raw_name).                                           *)
(***************************************************************************)
NoOutcome == [kind |-> "none", text |-> ""]

Init ==
  /\ translator = None
  /\ tokens = <<>>
  /\ token_idx = 0
  /\ outcome = NoOutcome
  /\ queries = <<>>
  /\ calls = <<>>
  /\ _client = <<>>
  /\ clients = <<>>
  /\ tasks = <<>>
  /\ log = <<>>
  /\ \/ /\ entry = "translate_sql_to_sparql"
        /\ cube_mapping \in Mappings
        /\ statement \in {<<>>} \cup {<<st>> : st \in Statements}
        /\ result = ParsedQuery
        /\ raw_name = ""
        /\ raw_value = NoneV
        /\ pc = "parse"
     \/ /\ entry = "translate"
        /\ cube_mapping \in Mappings
        /\ statement = <<>>
        /\ result \in ParsedQueries
        /\ raw_name = ""
        /\ raw_value = NoneV
        /\ pc = "construct"
     \/ /\ entry = "_sanitize_var_name"
        /\ cube_mapping = None
        /\ statement = <<>>
        /\ result = ParsedQuery
        /\ raw_name \in Names
        /\ raw_value = NoneV
        /\ pc = "sanitize"
     \/ /\ entry = "_format_value"
        /\ cube_mapping = None
        /\ statement = <<>>
        /\ result = ParsedQuery
        /\ raw_name = ""
        /\ raw_value \in Values
        /\ pc = "format"
     \/ /\ entry = "_column_to_pattern"
        /\ cube_mapping = None
        /\ statement = <<>>
        /\ result = ParsedQuery
        /\ raw_name \in ColumnNames
        /\ raw_value = NoneV
        /\ pc = "pattern"

Fail(exc, msg) ==
  /\ outcome' = [kind |-> exc, text |-> msg]
  /\ pc' = "done"

\* variant: the statement type is not tested
ParseBeginAnyType ==
  /\ pc = "parse"
  /\ IF statement = <<>>
     THEN /\ Fail("SQLParseError", "Failed to parse SQL query")
          /\ UNCHANGED <<tokens, token_idx, result>>
     ELSE /\ result' = ParsedQuery
          /\ tokens' = SeqFilter(NotWhitespace, statement[1])
          /\ token_idx' = 0
          /\ pc' = "select"
          /\ UNCHANGED outcome
  /\ UNCHANGED <<entry, statement, cube_mapping, translator>>
  /\ UNCHANGED <<raw_name, raw_value, queries, calls, clientVars>>

\* parser.py 103-118: sqlparse.parse, the statement type, the token list
ParseBegin ==
  /\ pc = "parse"
  /\ IF statement = <<>>
     THEN /\ Fail("SQLParseError", "Failed to parse SQL query")
          /\ UNCHANGED <<tokens, token_idx, result>>
     ELSE IF get_type(statement[1]) # "SELECT"
     THEN /\ Fail("SQLParseError",
                  "Only SELECT statements are supported, got: " \o get_type(statement[1]))
          /\ UNCHANGED <<tokens, token_idx, result>>
     ELSE /\ result' = ParsedQuery
          /\ tokens' = SeqFilter(NotWhitespace, statement[1])
          /\ token_idx' = 0
          /\ pc' = "select"
          /\ UNCHANGED outcome
  /\ UNCHANGED <<entry, statement, cube_mapping, translator>>
  /\ UNCHANGED <<raw_name, raw_value, queries, calls, clientVars>>

\* one clause parser called by parse, and the assignment of its return value
Clause(here, step, next) ==
  /\ pc = here
  /\ IF step.exc # "none"
     THEN /\ Fail(step.exc, step.val)
          /\ UNCHANGED <<token_idx, result>>
     ELSE /\ token_idx' = step.idx
          /\ result' = step.result
          /\ pc' = next
          /\ UNCHANGED outcome
  /\ UNCHANGED <<entry, statement, tokens, cube_mapping, translator>>
  /\ UNCHANGED <<raw_name, raw_value, queries, calls, clientVars>>

ParseSelectClause == Clause("select", _parse_select_clause(tokens, token_idx, result), "from")
ParseFromClause == Clause("from", _parse_from_clause(tokens, token_idx, result), "where")
ParseWhereClause == Clause("where", _parse_where_clause(tokens, token_idx, result), "group")
ParseGroupByClause ==
  Clause("group", _parse_group_by_clause(tokens, token_idx, result), "having")
ParseHavingClause ==
  Clause("having", _parse_having_clause(tokens, token_idx, result), "order")
ParseOrderByClause ==
  Clause("order", _parse_order_by_clause(tokens, token_idx, result), "limit")
ParseLimitClause ==
  Clause("limit", _parse_limit_clause(tokens, token_idx, result), "construct")

\* translator.py 30-37: self.cube_mapping = cube_mapping or {}
ConstructTranslator ==
  /\ pc = "construct"
  /\ translator' = Some([cube_mapping |-> IF cube_mapping = None THEN <<>>
                                         ELSE cube_mapping[1]])
  /\ pc' = "translate"
  /\ UNCHANGED <<entry, statement, tokens, token_idx, result, cube_mapping, outcome>>
  /\ UNCHANGED <<raw_name, raw_value, queries, calls, clientVars>>

\* translator.py 39-72
Translate ==
  /\ pc = "translate"
  /\ LET r == translate(translator[1].cube_mapping, result)
     IN outcome' = [kind |-> IF r.exc = "none" THEN "text" ELSE r.exc, text |-> r.val]
  /\ pc' = "done"
  /\ UNCHANGED <<entry, statement, tokens, token_idx, result, cube_mapping, translator>>
  /\ UNCHANGED <<raw_name, raw_value, queries, calls, clientVars>>

\* translator.py 242-250, called on its own
SanitizeVarName ==
  /\ pc = "sanitize"
  /\ outcome' = [kind |-> "text", text |-> _sanitize_var_name(raw_name)]
  /\ pc' = "done"
  /\ UNCHANGED <<entry, statement, tokens, token_idx, result, cube_mapping, translator>>
  /\ UNCHANGED <<raw_name, raw_value, queries, calls, clientVars>>

\* translator.py 229-240, called on its own
FormatValue ==
  /\ pc = "format"
  /\ outcome' = [kind |-> "text", text |-> _format_value(raw_value)]
  /\ pc' = "done"
  /\ UNCHANGED <<entry, statement, tokens, token_idx, result, cube_mapping, translator>>
  /\ UNCHANGED <<raw_name, raw_value, queries, calls, clientVars>>

\* translator.py 182-198, called on its own
ColumnToPattern ==
  /\ pc = "pattern"
  /\ outcome' = [kind |-> "text", text |-> _column_to_pattern(raw_name)]
  /\ pc' = "done"
  /\ UNCHANGED <<entry, statement, tokens, token_idx, result, cube_mapping, translator>>
  /\ UNCHANGED <<raw_name, raw_value, queries, calls, clientVars>>

Next ==
  \/ ParseBegin
  \/ ParseSelectClause
  \/ ParseFromClause
  \/ ParseWhereClause
  \/ ParseGroupByClause
  \/ ParseHavingClause
  \/ ParseOrderByClause
  \/ ParseLimitClause
  \/ ConstructTranslator
  \/ Translate
  \/ SanitizeVarName
  \/ FormatValue
  \/ ColumnToPattern

Spec == Init /\ [][Next]_vars

(***************************************************************************)
(* Callers of translate on one translator instance.  queries is the heap   *)
(* of ParsedQuery objects, calls[c] the frame of caller c: the object it   *)
(* passed, its position in translate (translator.py 52-72), its local      *)
(* variables and what it got back.  Callers take their steps in any order. *)
(***************************************************************************)
NumCalls == 2

CallQueries ==
  { Query(<<SelectColumn("*", None, None, FALSE)>>, Some("co2"), None, <<>>, PlainTail),
    Query(<<SelectColumn("region", None, None, FALSE),
            SelectColumn("value", Some("n"), Some("COUNT"), TRUE)>>,
          Some("emissions"), None,
          <<WhereCondition(Some("year"), Some("="), IntV(2020), TRUE)>>,
          [group_by |-> <<>>, order_by |-> <<OrderByColumn("year", FALSE)>>,
           limit |-> Some(10), offset |-> Some(0), distinct |-> TRUE]),
    Query(<<SelectColumn("region", None, None, FALSE)>>, None, None, <<>>, PlainTail),
    Query(<<SelectColumn("*", None, None, FALSE)>>, Some("emissions"), None,
          <<WhereCondition(Some("name"), Some("LIKE"), IntV(5), TRUE)>>, PlainTail) }

NewCall(q) ==
  [parsed_query |-> q, pc |-> "prefixes", prefixes |-> "", select_clause |-> "",
   where_clause |-> "", group_by_clause |-> "", order_by_clause |-> "",
   limit_offset |-> "", ret |-> NoOutcome]

InitCalls ==
  /\ entry = "translate"
  /\ statement = <<>>
  /\ tokens = <<>>
  /\ token_idx = 0
  /\ result = ParsedQuery
  /\ raw_name = ""
  /\ raw_value = NoneV
  /\ outcome = NoOutcome
  /\ pc = "calls"
  /\ cube_mapping \in Mappings
  /\ translator = Some([cube_mapping |-> IF cube_mapping = None THEN <<>>
                                        ELSE cube_mapping[1]])
  /\ queries \in {<<a, b>> : a \in CallQueries, b \in CallQueries}
  /\ calls \in [1..NumCalls -> {NewCall(q) : q \in 1..2}]
  /\ _client = <<>>
  /\ clients = <<>>
  /\ tasks = <<>>
  /\ log = <<>>

\* one line of translate run by caller c
CallStep(c, here, frame) ==
  /\ calls[c].pc = here
  /\ calls' = [calls EXCEPT ![c] = frame]
  /\ UNCHANGED <<entry, statement, tokens, token_idx, result, cube_mapping,
                 translator, pc, outcome, raw_name, raw_value, queries, clientVars>>

CallPrefixes(c) ==
  CallStep(c, "prefixes",
           [calls[c] EXCEPT !.prefixes = get_prefix_declarations, !.pc = "select"])

CallBuildSelect(c) ==
  CallStep(c, "select",
           [calls[c] EXCEPT
              !.select_clause = _build_select_clause(queries[calls[c].parsed_query]),
              !.pc = "where"])

\* variant: _get_cube_uri stores the URI it resolved in self.cube_mapping
CallBuildWhereMemo(c) ==
  /\ calls[c].pc = "where"
  /\ LET query == queries[calls[c].parsed_query]
         r == _build_where_clause(translator[1].cube_mapping, query)
     IN IF r.exc # "none"
        THEN /\ calls' = [calls EXCEPT ![c].ret = [kind |-> r.exc, text |-> r.val],
                                       ![c].pc = "done"]
             /\ UNCHANGED translator
        ELSE /\ calls' = [calls EXCEPT ![c].where_clause = r.val, ![c].pc = "group"]
             /\ translator' =
                  Some([cube_mapping |->
                          (query.table[1] :>
                             _get_cube_uri(translator[1].cube_mapping, query.table).val)
                          @@ translator[1].cube_mapping])
  /\ UNCHANGED <<entry, statement, tokens, token_idx, result, cube_mapping,
                 pc, outcome, raw_name, raw_value, queries, clientVars>>

\* translator.py 54: an exception of _build_where_clause leaves translate
CallBuildWhere(c) ==
  /\ calls[c].pc = "where"
  /\ LET query == queries[calls[c].parsed_query]
         r == _build_where_clause(translator[1].cube_mapping, query)
     IN IF r.exc # "none"
        THEN calls' = [calls EXCEPT ![c].ret = [kind |-> r.exc, text |-> r.val],
                                    ![c].pc = "done"]
        ELSE calls' = [calls EXCEPT ![c].where_clause = r.val, ![c].pc = "group"]
  /\ UNCHANGED translator
  /\ UNCHANGED <<entry, statement, tokens, token_idx, result, cube_mapping,
                 pc, outcome, raw_name, raw_value, queries, clientVars>>

CallBuildGroupBy(c) ==
  CallStep(c, "group",
           [calls[c] EXCEPT
              !.group_by_clause = _build_group_by_clause(queries[calls[c].parsed_query]),
              !.pc = "order"])

CallBuildOrderBy(c) ==
  CallStep(c, "order",
           [calls[c] EXCEPT
              !.order_by_clause = _build_order_by_clause(queries[calls[c].parsed_query]),
              !.pc = "limit"])

CallBuildLimitOffset(c) ==
  CallStep(c, "limit",
           [calls[c] EXCEPT
              !.limit_offset = _build_limit_offset(queries[calls[c].parsed_query]),
              !.pc = "return"])

\* translator.py 60-72: the parts are combined and the text is returned
CallReturn(c) ==
  CallStep(c, "return",
           [calls[c] EXCEPT
              !.ret = [kind |-> "text",
                       text |-> Strip(calls[c].prefixes \o "\n\n"
                                      \o calls[c].select_clause \o "\nWHERE {\n"
                                      \o calls[c].where_clause \o "\n}\n"
                                      \o calls[c].group_by_clause \o "\n"
                                      \o calls[c].order_by_clause \o "\n"
                                      \o calls[c].limit_offset \o "\n")],
              !.pc = "done"])

NextCalls ==
  \E c \in 1..Len(calls) :
    \/ CallPrefixes(c)
    \/ CallBuildSelect(c)
    \/ CallBuildWhere(c)
    \/ CallBuildGroupBy(c)
    \/ CallBuildOrderBy(c)
    \/ CallBuildLimitOffset(c)
    \/ CallReturn(c)

SpecCalls == InitCalls /\ [][NextCalls]_vars

(***************************************************************************)
(* sparql/client.py: the singleton client.  get_sparql_client is a plain   *)
(* function and runs without suspending; close_sparql_client is a          *)
(* coroutine that suspends at `await _client.close()`, where the event     *)
(* loop may run any other task.  tasks[t] is a task of the loop: a request *)
(* handler calling get_sparql_client (main.py 167, 211, 250, 319) or the   *)
(* lifespan calling close_sparql_client (main.py 42).                      *)
(***************************************************************************)
NumTasks == 2
MaxCalls == 2

\* client.py 35-46: a new client, its httpx.AsyncClient open
SPARQLClient == [_http_client |-> "open"]

IdleTask == [pc |-> "idle", client |-> 0, made |-> 0]

Returned(op, client, fresh, state) ==
  [op |-> op, client |-> client, fresh |-> fresh, _http_client |-> state]

InitClient ==
  /\ entry = "get_sparql_client"
  /\ statement = <<>>
  /\ tokens = <<>>
  /\ token_idx = 0
  /\ result = ParsedQuery
  /\ raw_name = ""
  /\ raw_value = NoneV
  /\ outcome = NoOutcome
  /\ pc = "loop"
  /\ cube_mapping = None
  /\ translator = None
  /\ queries = <<>>
  /\ calls = <<>>
  /\ _client = None
  /\ clients = <<>>
  /\ tasks = [t \in 1..NumTasks |-> IdleTask]
  /\ log = <<>>

ClientFrame ==
  UNCHANGED <<entry, statement, tokens, token_idx, result, cube_mapping, translator,
              pc, outcome, raw_name, raw_value, queries, calls>>

\* client.py 203-208, run to its return by task t
GetSparqlClient(t) ==
  /\ tasks[t].pc = "idle"
  /\ tasks[t].made < MaxCalls
  /\ IF _client = None
     THEN /\ clients' = Append(clients, SPARQLClient)
          /\ _client' = Some(Len(clients) + 1)
     ELSE UNCHANGED <<clients, _client>>
  /\ log' = Append(log, Returned("get", _client'[1], _client = None,
                                 clients'[_client'[1]]._http_client))
  /\ tasks' = [tasks EXCEPT ![t].made = @ + 1]
  /\ ClientFrame

\* variant: the singleton is cleared before the await
CloseClearsFirst(t) ==
  /\ tasks[t].pc = "idle"
  /\ tasks[t].made < MaxCalls
  /\ IF _client = None
     THEN /\ log' = Append(log, Returned("close", 0, FALSE, "none"))
          /\ tasks' = [tasks EXCEPT ![t].made = @ + 1]
          /\ UNCHANGED <<clients, _client>>
     ELSE /\ clients' = [clients EXCEPT ![_client[1]]._http_client = "closing"]
          /\ tasks' = [tasks EXCEPT ![t] = [pc |-> "await", client |-> _client[1],
                                            made |-> @.made + 1]]
          /\ _client' = None
          /\ UNCHANGED log
  /\ ClientFrame

\* client.py 211-215 and 189-191: close_sparql_client up to the point where
\* `await self._http_client.aclose()` suspends
CloseSparqlClient(t) ==
  /\ tasks[t].pc = "idle"
  /\ tasks[t].made < MaxCalls
  /\ IF _client = None
     THEN /\ log' = Append(log, Returned("close", 0, FALSE, "none"))
          /\ tasks' = [tasks EXCEPT ![t].made = @ + 1]
          /\ UNCHANGED clients
     ELSE /\ clients' = [clients EXCEPT ![_client[1]]._http_client = "closing"]
          /\ tasks' = [tasks EXCEPT ![t] = [pc |-> "await", client |-> _client[1],
                                            made |-> @.made + 1]]
          /\ UNCHANGED log
  /\ UNCHANGED _client
  /\ ClientFrame

\* client.py 191 and 216: aclose completes, the task resumes and clears the
\* singleton
CloseResume(t) ==
  /\ tasks[t].pc = "await"
  /\ clients' = [clients EXCEPT ![tasks[t].client]._http_client = "closed"]
  /\ _client' = None
  /\ log' = Append(log, Returned("close", tasks[t].client, FALSE, "closed"))
  /\ tasks' = [tasks EXCEPT ![t] = [pc |-> "idle", client |-> 0, made |-> @.made]]
  /\ ClientFrame

NextClient ==
  \E t \in 1..NumTasks :
    \/ GetSparqlClient(t)
    \/ CloseSparqlClient(t)
    \/ CloseResume(t)

SpecClient == InitClient /\ [][NextClient]_vars

(***************************************************************************)
(* Properties                                                              *)
(***************************************************************************)
Pipeline == entry = "translate_sql_to_sparql"

\* parse has returned its ParsedQuery, which result holds from then on
ParseReturned == Pipeline /\ (pc \in {"construct", "translate"} \/ translator # None)

\* translate has been called and has ended
TranslateEnded == pc = "done" /\ translator # None

\* the statement's tokens, as parse lists them
TopTokens == IF statement = <<>> THEN <<>> ELSE SeqFilter(NotWhitespace, statement[1])

IsIntegerLiteral(t) == t.ttype = "Literal.Number.Integer" /\ AllDigits(t.value)

\* the integers written after the keyword kw at the top level of the statement
WrittenAfter(kw) ==
  { DigitsValue(TopTokens[i + 1].value, 0) :
      i \in { j \in 1..(Len(TopTokens) - 1) :
                IsKeyword(TopTokens[j], {kw}) /\ IsIntegerLiteral(TopTokens[j + 1]) } }

\* C1: a SELECT statement with both LIMIT n and OFFSET m, in either order,
\* parses to a ParsedQuery with limit = n and offset = m.
C1_LimitAndOffsetParsed ==
  (ParseReturned /\ WrittenAfter("LIMIT") # {} /\ WrittenAfter("OFFSET") # {})
    => /\ result.limit # None /\ result.limit[1] \in WrittenAfter("LIMIT")
       /\ result.offset # None /\ result.offset[1] \in WrittenAfter("OFFSET")

\* the URI the three-tier table resolution gives: the mapped URI, else the
\* table name that is itself an absolute URI, else the base path and the name
ResolvedUri(mapping, name) ==
  IF name \in DOMAIN mapping THEN mapping[name]
  ELSE IF StartsWith(name, "http://") \/ StartsWith(name, "https://") THEN name
  ELSE "https://environment.ld.admin.ch/foen/cube/" \o name

AnchorText == "cube:observedBy <" \o ResolvedUri(translator[1].cube_mapping, result.table[1]) \o ">"

\* every string of the ParsedQuery that translate copies into the text
CopiedStrings(query) ==
  {query.columns[i].name : i \in 1..Len(query.columns)}
  \cup {query.columns[i].alias[1] :
          i \in {j \in 1..Len(query.columns) : query.columns[j].alias # None}}
  \cup {query.where_conditions[i].column[1] :
          i \in {j \in 1..Len(query.where_conditions) :
                   query.where_conditions[j].column # None}}
  \cup {PyStr(query.where_conditions[i].value) : i \in 1..Len(query.where_conditions)}
  \cup {query.group_by[i] : i \in 1..Len(query.group_by)}
  \cup {query.order_by[i].column : i \in 1..Len(query.order_by)}

\* C2 as stated: for every ParsedQuery with a non-empty table, the text
\* translate returns contains exactly one occurrence of cube:observedBy <U>,
\* U the resolved URI of the table.
C2_ExactlyOneAnchor ==
  (TranslateEnded /\ outcome.kind = "text")
    => Cardinality(Occurrences(outcome.text, AnchorText)) = 1

\* C2 amended: when no column name, alias, condition column, condition value,
\* group_by or order_by name contains the text cube:observedBy, the text
\* translate returns contains exactly one occurrence of cube:observedBy <U>.
C2_ExactlyOneAnchorUnlessCopied ==
  (/\ TranslateEnded /\ outcome.kind = "text"
   /\ \A str \in CopiedStrings(result) : ~Contains(str, "cube:observedBy"))
    => Cardinality(Occurrences(outcome.text, AnchorText)) = 1

C2_Witness ==
  /\ TranslateEnded /\ outcome.kind = "text"
  /\ Len(result.columns) = 2
  /\ \A str \in CopiedStrings(result) : ~Contains(str, "cube:observedBy")
  /\ result.table = Some("emissions")
  /\ translator[1].cube_mapping # <<>>

\* C3: the cube URI of the anchor pattern is the mapped URI when the table
\* name is a key of cube_mapping (also for a name that starts with http://),
\* else the name itself when it starts with http:// or https://, else the
\* base resource path followed by the name.
C3_TableResolutionPrecedence ==
  (TranslateEnded /\ outcome.kind = "text")
    => StartsWith(outcome.text,
         get_prefix_declarations \o "\n\n" \o _build_select_clause(result)
         \o "\nWHERE {\n  ?observation a cube:Observation ;\n    cube:observedBy <"
         \o ResolvedUri(translator[1].cube_mapping, result.table[1]) \o "> .")

C3_Witness ==
  /\ TranslateEnded /\ outcome.kind = "text"
  /\ result.table = Some("http://ex.org/cube/1")
  /\ "http://ex.org/cube/1" \in DOMAIN translator[1].cube_mapping
  /\ Contains(outcome.text, "cube:observedBy <https://ex.org/mapped> .")

\* C4: translate of a ParsedQuery whose table is absent or the empty string
\* fails with TranslationError and returns no SPARQL text, whatever the
\* other fields and the cube_mapping.
C4_MissingTableFails ==
  (TranslateEnded /\ (result.table = None \/ result.table = Some("")))
    => outcome = [kind |-> "TranslationError", text |-> "No table specified in query"]

C4_Witness ==
  /\ TranslateEnded /\ result.table = Some("")
  /\ Len(result.columns) = 2 /\ result.columns[2].aggregate # None
  /\ translator[1].cube_mapping # <<>>
  /\ outcome.kind = "TranslationError"

\* C5: in translate_sql_to_sparql a statement that is not a SELECT fails in
\* parse with a ParseError naming its kind, and no translator is constructed
\* or invoked for it; a TranslationError raised by translate reaches the
\* caller as it was raised.
C5_NonSelectNeverTranslated ==
  /\ (Pipeline /\ statement # <<>> /\ get_type(statement[1]) # "SELECT")
       => /\ translator = None
          /\ pc \in {"parse", "done"}
          /\ pc = "done" =>
               outcome = [kind |-> "SQLParseError",
                          text |-> "Only SELECT statements are supported, got: "
                                   \o get_type(statement[1])]
  /\ (Pipeline /\ TranslateEnded /\ (result.table = None \/ result.table = Some("")))
       => outcome = [kind |-> "TranslationError", text |-> "No table specified in query"]

C5_Witness ==
  /\ Pipeline /\ pc = "done" /\ statement # <<>>
  /\ get_type(statement[1]) = "DELETE"
  /\ Len(TopTokens) > 1
  /\ outcome.kind = "SQLParseError"

\* C6: parse fails with no failure kind other than ParseError, also for a
\* comparison whose operator text is not a member of ComparisonOperator.
C6_ParseFailsOnlyWithParseError ==
  (Pipeline /\ pc = "done" /\ translator = None) => outcome.kind = "SQLParseError"

\* C7: translate either returns a SPARQL string or fails with
\* TranslationError, for every ParsedQuery.
C7_TranslateFailsOnlyWithTranslationError ==
  TranslateEnded => outcome.kind \in {"text", "TranslationError"}

\* C8: when FROM is present and no table token follows it, parse fails with
\* ParseError and returns no ParsedQuery.
C8_FromWithoutTableFails ==
  (/\ Pipeline /\ TopTokens # <<>> /\ get_type(statement[1]) = "SELECT"
   /\ IsKeyword(TopTokens[Len(TopTokens)], {"FROM"}))
    => /\ ~ParseReturned
       /\ pc = "done" => outcome.kind = "SQLParseError"

\* the text after the prefix declarations
Body(text) == SubSeq(text, Len(get_prefix_declarations) + 1, Len(text))

\* the first position at which p occurs in s, 0 when there is none
FirstIn(s, p) ==
  LET found == Occurrences(s, p)
  IN IF found = {} THEN 0 ELSE CHOOSE i \in found : \A j \in found : i <= j

\* the text between WHERE { and the closing brace
WhereBlock(text) ==
  LET body == Body(text)
      open == "\nWHERE {\n"
      start == FirstIn(body, open) + Len(open)
      close == FirstIn(body, "\n}")
  IN SubSeq(body, start, close)

\* C9: translate emits exactly one FILTER line per WhereCondition, for every
\* operator, and every FILTER line comes after every triple pattern.
C9_OneFilterPerCondition ==
  (TranslateEnded /\ outcome.kind = "text")
    => LET block == WhereBlock(outcome.text)
           filters == Occurrences(block, "\n  FILTER(")
           patterns == Occurrences(block, "\n  ?observation ")
       IN /\ Cardinality(filters) = Len(result.where_conditions)
          /\ \A f \in filters, q \in patterns : q < f

\* the SELECT clause of the text: the line after the prefix declarations
SelectClause(text) ==
  LET start == Len(get_prefix_declarations) + 3
      end == CHOOSE i \in Occurrences(text, "\nWHERE {\n") :
                \A j \in Occurrences(text, "\nWHERE {\n") : i <= j
  IN SubSeq(text, start, end - 1)

AggregateExpression(col) ==
  "(" \o col.aggregate[1] \o "(" \o (IF col.distinct THEN "DISTINCT " ELSE "") \o "?"
  \o _sanitize_var_name(col.name) \o ") AS ?"
  \o (IF col.alias # None THEN col.alias[1] ELSE col.name) \o "_"
  \o Lower(col.aggregate[1]) \o ")"

\* C10: for every selected column that carries an aggregate, also a COUNT(*)
\* that is the only column, the SELECT clause contains (FUNC(?arg) AS ?A_f),
\* with DISTINCT before ?arg exactly when the column's distinct flag is set.
C10_AggregateExpressionEmitted ==
  (TranslateEnded /\ outcome.kind = "text")
    => \A i \in 1..Len(result.columns) :
         result.columns[i].aggregate # None
           => Contains(SelectClause(outcome.text), AggregateExpression(result.columns[i]))

\* the text after the closing brace of the WHERE block, line by line
AfterBlock(text) ==
  LET body == Body(text)
  IN SubSeq(body, FirstIn(body, "\n}") + 2, Len(body))

RECURSIVE SplitLines(_)
SplitLines(s) ==
  LET i == FirstIn(s, "\n")
  IN IF i = 0 THEN <<s>>
     ELSE <<SubSeq(s, 1, i - 1)>> \o SplitLines(SubSeq(s, i + 1, Len(s)))

ClauseLines(text) == SplitLines(AfterBlock(text))

IsGroupByLine(line) == StartsWith(line, "GROUP BY")

\* " ?v" for each name, v the sanitized name
RECURSIVE VarList(_)
VarList(names) ==
  IF names = <<>> THEN ""
  ELSE " ?" \o _sanitize_var_name(Head(names)) \o VarList(Tail(names))

\* C11: when group_by is non-empty the GROUP BY clause lists exactly the
\* sanitized variables of group_by, in written order, whatever the selected
\* columns are.
C11_ExplicitGroupByWins ==
  (TranslateEnded /\ outcome.kind = "text" /\ result.group_by # <<>>)
    => SeqFilter(IsGroupByLine, ClauseLines(outcome.text))
         = <<"GROUP BY" \o VarList(result.group_by)>>

C11_Witness ==
  /\ TranslateEnded /\ outcome.kind = "text"
  /\ result.group_by = <<"region", "a-b">>
  /\ \E i \in 1..Len(result.columns) : result.columns[i].aggregate # None
  /\ \E i \in 1..Len(result.columns) :
       result.columns[i].aggregate = None /\ result.columns[i].name # "*"
  /\ Contains(outcome.text, "\nGROUP BY ?region ?a_b")

ColumnName(col) == col.name

\* the selected columns that are neither an aggregate nor the wildcard
GroupingColumns(query) ==
  SeqFilter(LAMBDA col : col.aggregate = None /\ col.name # "*", query.columns)

HasAggregate(query) ==
  \E i \in 1..Len(query.columns) : query.columns[i].aggregate # None

\* C12: when group_by is empty a GROUP BY clause is emitted if and only if a
\* selected column is an aggregate and another is a non-aggregate,
\* non-wildcard column; it lists the variables of the latter (the sanitized
\* column names, which their triple patterns bind) in selection order, and the
\* text holds no GROUP BY otherwise.
C12_GroupByInference ==
  (TranslateEnded /\ outcome.kind = "text" /\ result.group_by = <<>>)
    => IF HasAggregate(result) /\ GroupingColumns(result) # <<>>
       THEN SeqFilter(IsGroupByLine, ClauseLines(outcome.text))
              = <<"GROUP BY" \o VarList(SeqMap(ColumnName, GroupingColumns(result)))>>
       ELSE ~Contains(outcome.text, "GROUP BY")

C12_Witness ==
  /\ TranslateEnded /\ outcome.kind = "text" /\ result.group_by = <<>>
  /\ Len(result.columns) = 2
  /\ result.columns[1].aggregate # None
  /\ result.columns[2].aggregate = None /\ result.columns[2].name # "*"
  /\ Contains(outcome.text, "\nGROUP BY ?")

C12_WitnessSingleAggregate ==
  /\ TranslateEnded /\ outcome.kind = "text" /\ result.group_by = <<>>
  /\ Len(result.columns) = 1 /\ result.columns[1].aggregate # None
  /\ result.columns[1].name # "*"

\* the characters of s up to the first blank, parenthesis, comma or line end
RECURSIVE NameUpTo(_)
NameUpTo(s) ==
  IF s = "" \/ Head(s) \in {" ", ")", "(", ",", "\n"} THEN ""
  ELSE Head(s) \o NameUpTo(Tail(s))

\* the names of the variables written in the query after the prefix
\* declarations: what follows each question mark
VariablesOf(text) ==
  LET body == SubSeq(text, Len(get_prefix_declarations) + 1, Len(text))
  IN { NameUpTo(SubSeq(body, i + 1, Len(body))) : i \in Occurrences(body, "?") }

\* C13: every variable name translate emits, in any clause, aggregate result
\* variables included, contains none of the characters . - : / # and does not
\* start with a digit.
C13_VariablesAreSanitized ==
  (TranslateEnded /\ outcome.kind = "text")
    => \A v \in VariablesOf(outcome.text) :
         /\ \A ch \in {".", "-", ":", "/", "#"} : ~Contains(v, ch)
         /\ v # "" => ~IsDigit(Head(v))

\* C14: identifier sanitization is idempotent: sanitizing the sanitized name
\* returns it unchanged, for every name.
C14_SanitizeIdempotent ==
  (entry = "_sanitize_var_name" /\ pc = "done")
    => _sanitize_var_name(outcome.text) = outcome.text

C14_Witness ==
  /\ entry = "_sanitize_var_name" /\ pc = "done"
  /\ raw_name = "1.#"
  /\ outcome.text = "v1__"

\* C15: for each non-aggregate, non-wildcard selected column, the variable the
\* SELECT clause projects for it (from the alias when it has one, else from
\* the name) is the variable its triple pattern binds in the WHERE block.
C15_ProjectedVariableIsBound ==
  (TranslateEnded /\ outcome.kind = "text")
    => \A i \in 1..Len(result.columns) :
         (result.columns[i].aggregate = None /\ result.columns[i].name # "*")
           => /\ Contains(SelectClause(outcome.text) \o " ",
                          " " \o _column_to_variable(result.columns[i]) \o " ")
              /\ Contains(WhereBlock(outcome.text),
                          " " \o _column_to_variable(result.columns[i]) \o " .\n")

IsPatternLine(line) == StartsWith(line, "  ?observation ")

EndsWith(s, p) == Len(s) >= Len(p) /\ SubSeq(s, Len(s) - Len(p) + 1, Len(s)) = p

\* the triple pattern lines of the WHERE block after the two anchor lines
ColumnPatterns(text) ==
  LET lines == SplitLines(WhereBlock(text))
  IN SeqFilter(IsPatternLine, SubSeq(lines, 3, Len(lines)))

\* the selected columns whose name is not the wildcard
NamedColumns(query) == SeqFilter(LAMBDA col : col.name # "*", query.columns)

\* C16 as stated: besides the anchor, the WHERE block has one triple pattern
\* for each non-aggregate, non-wildcard selected column and for no other
\* column.
C16_PatternsForPlainColumnsOnly ==
  (TranslateEnded /\ outcome.kind = "text")
    => Len(ColumnPatterns(outcome.text)) = Len(GroupingColumns(result))

\* C16 amended: besides the anchor, the WHERE block has one triple pattern for
\* each selected column whose name is not *, aggregate columns included, in
\* selection order, each binding the sanitized column name; a column named *
\* adds none.
C16_PatternsForNamedColumns ==
  (TranslateEnded /\ outcome.kind = "text")
    => LET patterns == ColumnPatterns(outcome.text)
           named == NamedColumns(result)
       IN /\ Len(patterns) = Len(named)
          /\ \A i \in 1..Len(named) :
               EndsWith(patterns[i], " ?" \o _sanitize_var_name(named[i].name) \o " .")

C16_Witness ==
  /\ TranslateEnded /\ outcome.kind = "text"
  /\ Len(result.columns) = 2
  /\ result.columns[1].aggregate # None /\ result.columns[1].name = "*"
  /\ result.columns[2].aggregate # None /\ result.columns[2].name = "value"
  /\ ColumnPatterns(outcome.text) = <<"  ?observation schema:value ?value .">>

\* C17: every ParsedQuery a successful parse returns has at least one entry in
\* columns, and when the non-aggregate wildcard entry * is present it is the
\* only entry.
C17_ColumnsWellFormed ==
  ParseReturned
    => /\ Len(result.columns) >= 1
       /\ (\E i \in 1..Len(result.columns) :
             result.columns[i].name = "*" /\ result.columns[i].aggregate = None)
            => Len(result.columns) = 1

\* parse from the token list on: the clause parsers one after the other
ParseTokens(toks) ==
  LET s1 == _parse_select_clause(toks, 0, ParsedQuery)
      s2 == _parse_from_clause(toks, s1.idx, s1.result)
      s3 == _parse_where_clause(toks, s2.idx, s2.result)
      s4 == _parse_group_by_clause(toks, s3.idx, s3.result)
      s5 == _parse_having_clause(toks, s4.idx, s4.result)
      s6 == _parse_order_by_clause(toks, s5.idx, s5.result)
  IN IF s3.exc # "none" THEN s3 ELSE _parse_limit_clause(toks, s6.idx, s6.result)

\* the positions of the top-level kw keywords that are followed by a token
\* that is not an integer literal
MalformedAt(kw) ==
  { j \in 1..(Len(TopTokens) - 1) :
      IsKeyword(TopTokens[j], {kw}) /\ ~IsIntegerLiteral(TopTokens[j + 1]) }

\* the statement's tokens without the keyword at j and the token after it
WithoutClause(j) == SubSeq(TopTokens, 1, j - 1) \o SubSeq(TopTokens, j + 2, Len(TopTokens))

IsOrderByLine(line) == StartsWith(line, "ORDER BY")
IsLimitLine(line) == StartsWith(line, "LIMIT") \/ StartsWith(line, "OFFSET")

\* " ?v" for an ascending entry and " DESC(?v)" for a descending one
RECURSIVE OrderList(_)
OrderList(order_by) ==
  IF order_by = <<>> THEN ""
  ELSE (IF Head(order_by).ascending
        THEN " ?" \o _sanitize_var_name(Head(order_by).column)
        ELSE " DESC(?" \o _sanitize_var_name(Head(order_by).column) \o ")")
       \o OrderList(Tail(order_by))

LimitText(query) ==
  IF query.limit # None /\ query.offset # None
  THEN <<"LIMIT " \o ToString(query.limit[1]) \o " OFFSET " \o ToString(query.offset[1])>>
  ELSE IF query.limit # None THEN <<"LIMIT " \o ToString(query.limit[1])>>
  ELSE IF query.offset # None THEN <<"OFFSET " \o ToString(query.offset[1])>>
  ELSE <<>>

\* C19: LIMIT n is emitted exactly when limit is present and OFFSET m exactly
\* when offset is present, 0 included, LIMIT before OFFSET; ORDER BY is
\* emitted exactly when order_by is non-empty and lists the sanitized
\* variables in order, as DESC(?v) exactly for the descending entries.
C19_OrderLimitOffsetPassThrough ==
  (TranslateEnded /\ outcome.kind = "text")
    => /\ SeqFilter(IsLimitLine, ClauseLines(outcome.text)) = LimitText(result)
       /\ SeqFilter(IsOrderByLine, ClauseLines(outcome.text))
            = IF result.order_by = <<>> THEN <<>>
              ELSE <<"ORDER BY" \o OrderList(result.order_by)>>

C19_Witness ==
  /\ TranslateEnded /\ outcome.kind = "text"
  /\ result.limit = Some(0) /\ result.offset = Some(0)
  /\ Len(result.order_by) = 2
  /\ EndsWith(outcome.text, "\nORDER BY ?region DESC(?v2d)\nLIMIT 0 OFFSET 0")

\* what translate gives for the query of caller c when it is the only call
\* made on a translator constructed with cube_mapping
Alone(c) ==
  LET r == translate(IF cube_mapping = None THEN <<>> ELSE cube_mapping[1],
                     queries[calls[c].parsed_query])
  IN [kind |-> IF r.exc = "none" THEN "text" ELSE r.exc, text |-> r.val]

\* C20: translate modifies neither the ParsedQuery it is given nor the
\* translator's cube_mapping; of two calls interleaved on one translator each
\* returns what the same call returns alone, and calls with equal inputs
\* return equal text.
C20_TranslateIsPure ==
  /\ [][queries' = queries /\ translator' = translator]_vars
  /\ [](\A c \in 1..Len(calls) :
          calls[c].pc = "done" => calls[c].ret = Alone(c))
  /\ [](\A c, d \in 1..Len(calls) :
          (/\ calls[c].pc = "done" /\ calls[d].pc = "done"
           /\ queries[calls[c].parsed_query] = queries[calls[d].parsed_query])
            => calls[c].ret = calls[d].ret)

C20_Witness ==
  /\ Len(calls) >= 2
  /\ calls[1].pc = "done" /\ calls[1].ret.kind = "text"
  /\ calls[2].pc = "done" /\ calls[2].ret.kind = "text"
  /\ calls[1].parsed_query # calls[2].parsed_query
  /\ calls[1].ret.text # calls[2].ret.text
  /\ translator[1].cube_mapping # <<>>

\* for each comparison of a WHERE clause, in order, the connective written
\* before it: "AND", "OR", or "" for the first comparison
RECURSIVE Connectives(_, _)
Connectives(toks, last) ==
  IF toks = <<>> THEN <<>>
  ELSE IF Head(toks).cls = "Comparison" THEN <<last>> \o Connectives(Tail(toks), last)
  ELSE IF IsKeyword(Head(toks), {"AND", "OR"})
  THEN Connectives(Tail(toks), Upper(Head(toks).value))
  ELSE Connectives(Tail(toks), last)

IsWhere(t) == t.cls = "Where"

\* C21: for a WHERE clause whose comparisons are joined by OR, parse records
\* is_and = false on the condition that follows an OR and is_and = true on a
\* condition that follows an AND.
C21_IsAndRecorded ==
  (ParseReturned /\ SeqFilter(IsWhere, TopTokens) # <<>>)
    => LET written == Connectives(SeqFilter(IsWhere, TopTokens)[1].tokens, "")
       IN Len(result.where_conditions) = Len(written)
            => \A k \in 1..Len(written) :
                 /\ written[k] = "OR" => ~result.where_conditions[k].is_and
                 /\ written[k] = "AND" => result.where_conditions[k].is_and

AsAnd(condition) == [condition EXCEPT !.is_and = TRUE]

\* the query with table_alias, having_conditions and every is_and at their
\* defaults
WithoutUnusedFields(query) ==
  [query EXCEPT !.table_alias = None, !.having_conditions = <<>>,
                !.where_conditions = SeqMap(AsAnd, @)]

\* C22: the output of translate does not depend on table_alias,
\* having_conditions or the is_and flag of any WhereCondition: it is the
\* output for the query that has these fields at their defaults.
C22_UnusedFieldsIgnored ==
  TranslateEnded
    => LET r == translate(translator[1].cube_mapping, WithoutUnusedFields(result))
       IN outcome = [kind |-> IF r.exc = "none" THEN "text" ELSE r.exc, text |-> r.val]

C22_Witness ==
  /\ TranslateEnded /\ outcome.kind = "text"
  /\ result.table_alias # None
  /\ result.having_conditions # <<>>
  /\ \E k \in 1..Len(result.where_conditions) : ~result.where_conditions[k].is_and

IsFilterLine(line) == StartsWith(line, "  FILTER(")

\* the FILTER lines of the WHERE block, in order
FilterLines(text) == SeqFilter(IsFilterLine, SplitLines(WhereBlock(text)))

\* the FILTER the operator table gives for a condition
ExpectedFilter(condition) ==
  LET v == "?" \o _sanitize_var_name(condition.column[1])
      op == condition.operator[1]
  IN IF op \in {"=", "!="}
     THEN "  FILTER(" \o v \o " " \o op \o " " \o _format_value(condition.value) \o ")"
     ELSE IF op \in {"<", "<=", ">", ">="}
     THEN "  FILTER(" \o v \o " " \o op \o " " \o PyStr(condition.value) \o ")"
     ELSE IF op = "LIKE"
     THEN "  FILTER(REGEX(" \o v \o ", \""
          \o Replace(Replace(condition.value.s, "%", ".*"), "_", ".") \o "\", \"i\"))"
     ELSE IF op = "IS NULL" THEN "  FILTER(!BOUND(" \o v \o "))"
     ELSE "  FILTER(BOUND(" \o v \o "))"

InOperatorTable(condition) ==
  /\ condition.column # None
  /\ condition.operator # None
  /\ condition.operator[1] \in {"=", "!=", "<", "<=", ">", ">=", "LIKE", "IS NULL",
                                "IS NOT NULL"}

\* C23: each WhereCondition is translated by operator: = and != with the
\* formatted value, < <= > >= with the value unquoted, LIKE as a
\* case-insensitive REGEX with % as .* and _ as ., IS NULL as !BOUND and
\* IS NOT NULL as BOUND, on the sanitized condition column.
C23_FilterPerOperator ==
  (/\ TranslateEnded /\ outcome.kind = "text"
   /\ \A k \in 1..Len(result.where_conditions) :
        InOperatorTable(result.where_conditions[k]))
    => FilterLines(outcome.text) = SeqMap(ExpectedFilter, result.where_conditions)

C23_Witness ==
  /\ TranslateEnded /\ outcome.kind = "text"
  /\ Len(result.where_conditions) = 2
  /\ result.where_conditions[1].operator = Some(">")
  /\ result.where_conditions[1].value.t = "str"
  /\ result.where_conditions[2].operator = Some("LIKE")
  /\ FilterLines(outcome.text)
       = <<"  FILTER(?v > 2020)", "  FILTER(REGEX(?name, \"a.*b.c\", \"i\"))">>

\* C24: the value formatter renders a string starting with http:// or
\* https:// as <value>, any other string as "value", a boolean as the bare
\* word true or false, and an integer or float as its literal text.
C24_FormatValue ==
  (entry = "_format_value" /\ pc = "done"
   /\ raw_value.t \in {"str", "bool", "int", "float"})
    => outcome.text =
         (IF raw_value.t = "str"
          THEN IF StartsWith(raw_value.s, "http://") \/ StartsWith(raw_value.s, "https://")
               THEN "<" \o raw_value.s \o ">"
               ELSE "\"" \o raw_value.s \o "\""
          ELSE IF raw_value = BoolV(TRUE) THEN "true"
          ELSE IF raw_value = BoolV(FALSE) THEN "false"
          ELSE IF raw_value.t = "int" THEN ToString(raw_value.n)
          ELSE raw_value.s)

C24_Witness ==
  /\ entry = "_format_value" /\ pc = "done"
  /\ raw_value = BoolV(TRUE)
  /\ outcome.text = "true"

\* the predicate of a pattern line: its second word
PredicateOf(line) ==
  LET rest == SubSeq(line, Len("  ?observation ") + 1, Len(line))
  IN SubSeq(rest, 1, FirstIn(rest, " ?") - 1)

HasKnownPrefix(col_name) ==
  \E i \in 1..Len(PREFIXES) : StartsWith(col_name, PREFIXES[i][1] \o ":")

\* C25: the predicate of a column's triple pattern is <name> for a name
\* starting with http:// or https://, otherwise the name verbatim when it
\* is prefix:local with a prefix of the namespace registry, otherwise
\* schema: followed by the unmodified column name.
C25_PredicateChoice ==
  (entry = "_column_to_pattern" /\ pc = "done")
    => LET line == outcome.text
           expected ==
             IF StartsWith(raw_name, "http://") \/ StartsWith(raw_name, "https://")
             THEN "<" \o raw_name \o ">"
             ELSE IF HasKnownPrefix(raw_name) THEN raw_name
             ELSE "schema:" \o raw_name
       IN line = "  ?observation " \o expected \o " ?" \o _sanitize_var_name(raw_name) \o " ."

C25_Witness ==
  /\ entry = "_column_to_pattern" /\ pc = "done"
  /\ raw_name = "foo:bar"
  /\ outcome.text = "  ?observation schema:foo:bar ?foo_bar ."

\* C26: the SELECT clause is SELECT * or SELECT DISTINCT * when columns is
\* the single wildcard entry, and the keyword DISTINCT follows SELECT exactly
\* when the query's distinct flag is set, for wildcard and explicit column
\* lists alike; the distinct flag of an aggregate column never adds it.
C26_SelectDistinct ==
  (TranslateEnded /\ outcome.kind = "text")
    => LET clause == SelectClause(outcome.text)
       IN /\ result.columns = <<SelectColumn("*", None, None, FALSE)>>
               => clause = (IF result.distinct THEN "SELECT DISTINCT *" ELSE "SELECT *")
          /\ StartsWith(clause, "SELECT DISTINCT") <=> result.distinct

C26_Witness ==
  /\ TranslateEnded /\ outcome.kind = "text"
  /\ ~result.distinct
  /\ \E i \in 1..Len(result.columns) : result.columns[i].distinct
  /\ SelectClause(outcome.text) = "SELECT ?region (COUNT(DISTINCT ?value) AS ?n_count)"

C26_WitnessWildcard ==
  /\ TranslateEnded /\ outcome.kind = "text"
  /\ result.distinct
  /\ SelectClause(outcome.text) = "SELECT DISTINCT *"

\* a SPARQL string literal of s: the quote and the backslash escaped
EscapedLiteral(s) == "\"" \o Replace(Replace(s, "\\", "\\\\"), "\"", "\\\"") \o "\""

\* the FILTER of a condition whose string value is rendered as one literal
EscapedFilter(condition) ==
  LET v == "?" \o _sanitize_var_name(condition.column[1])
      op == condition.operator[1]
      value == condition.value.s
  IN IF op = "LIKE"
     THEN "  FILTER(REGEX(" \o v \o ", "
          \o EscapedLiteral(Replace(Replace(value, "%", ".*"), "_", ".")) \o ", \"i\"))"
     ELSE "  FILTER(" \o v \o " " \o op \o " "
          \o (IF IsUri(value) THEN "<" \o value \o ">" ELSE EscapedLiteral(value)) \o ")"

HasStringValue(condition) ==
  /\ InOperatorTable(condition)
  /\ condition.operator[1] \notin {"IS NULL", "IS NOT NULL"}
  /\ condition.value.t = "str"

\* C27: every WHERE string value placed into a FILTER is rendered as one
\* literal with its quotes escaped, for every operator, so that the FILTER
\* of a fixed operator and column has the same structure for all string
\* values.
C27_ValuesEscaped ==
  (/\ TranslateEnded /\ outcome.kind = "text"
   /\ \A k \in 1..Len(result.where_conditions) :
        HasStringValue(result.where_conditions[k]))
    => FilterLines(outcome.text) = SeqMap(EscapedFilter, result.where_conditions)

\* the same for = and != only, the operators that go through _format_value
C27_FormattedValuesEscaped ==
  (/\ TranslateEnded /\ outcome.kind = "text"
   /\ \A k \in 1..Len(result.where_conditions) :
        /\ HasStringValue(result.where_conditions[k])
        /\ result.where_conditions[k].operator[1] \in {"=", "!="})
    => FilterLines(outcome.text) = SeqMap(EscapedFilter, result.where_conditions)

StarFromCo2 == <<Leaf("Keyword.DML", "SELECT"), Leaf("Wildcard", "*")>>

\* LIMIT and OFFSET written in SQL order, each present or absent
OrderedLimitForms ==
  { <<>>,
    <<KW("LIMIT"), Num("5")>>,
    <<KW("OFFSET"), Num("10")>>,
    <<KW("LIMIT"), Num("5"), KW("OFFSET"), Num("10")>> }

WritesKeyword(form, kw) == \E i \in 1..Len(form) : IsKeyword(form[i], {kw})

\* the fields of the query written as w, g, o, l: absent clauses at their
\* defaults, present clauses populated
FieldsAsWritten(query, w, g, o, l) ==
  /\ query.where_conditions
       = (IF w = <<>> THEN <<>>
          ELSE <<WhereCondition(Some("year"), Some("="), IntV(2020), TRUE)>>)
  /\ query.group_by = (IF g = <<>> THEN <<>> ELSE <<"region">>)
  /\ IF o = <<>> THEN query.order_by = <<>>
     ELSE Len(query.order_by) = 1 /\ query.order_by[1].column = "year"
  /\ query.limit = (IF WritesKeyword(l, "LIMIT") THEN Some(5) ELSE None)
  /\ query.offset = (IF WritesKeyword(l, "OFFSET") THEN Some(10) ELSE None)

ParseFailed == Pipeline /\ pc = "done" /\ translator = None

\* SELECT * FROM co2 followed by the clauses w, g, o, l
Written(w, g, o, l) ==
  [stmt |-> Statement(StarFromCo2, <<KW("FROM"), Ident("co2")>>, w, g \o o \o l),
   w |-> w, g |-> g, o |-> o, l |-> l]

OrderedStatements ==
  { Written(w, g, o, l) :
      w \in {<<>>, <<Compare(Ident("year"), "=", Num("2020"))>>},
      g \in GroupForms, o \in OrderForms, l \in OrderedLimitForms }

ParsedAsWritten(S) ==
  (ParseFailed \/ ParseReturned)
    => \A s \in S :
         statement = <<s.stmt>>
           => ~ParseFailed /\ FieldsAsWritten(result, s.w, s.g, s.o, s.l)

\* C28: for every combination of present and absent WHERE, GROUP BY,
\* ORDER BY, LIMIT and OFFSET written in SQL order, parse succeeds, leaves
\* the field of every absent clause at its default and populates the field
\* of every present clause.
C28_AbsentClausesTolerated == ParsedAsWritten(OrderedStatements)

\* the claim's example: OFFSET written without WHERE, GROUP BY, ORDER BY and
\* LIMIT
C28_OffsetAlone ==
  ParsedAsWritten({Written(<<>>, <<>>, <<>>, <<KW("OFFSET"), Num("10")>>)})

WithoutOffsetStatements ==
  { Written(w, g, o, l) :
      w \in {<<>>, <<Compare(Ident("year"), "=", Num("2020"))>>},
      g \in {<<>>, <<KW("GROUP"), KW("BY"), Ident("region")>>},
      o \in {<<>>, <<KW("ORDER"), KW("BY"), Ordered("year", "DESC")>>},
      l \in {<<>>, <<KW("LIMIT"), Num("5")>>} }

\* the same without OFFSET and with the keywords GROUP, BY and ORDER, BY as
\* separate tokens
C28_WithoutOffset == ParsedAsWritten(WithoutOffsetStatements)

\* the names of the variables written in s
VarsIn(s) == { NameUpTo(SubSeq(s, i + 1, Len(s))) : i \in Occurrences(s, "?") }

\* the object variable of a triple pattern line: its last variable
ObjectVar(line) ==
  LET last == CHOOSE i \in Occurrences(line, "?") :
                \A j \in Occurrences(line, "?") : j <= i
  IN NameUpTo(SubSeq(line, last + 1, Len(line)))

\* the variables some triple pattern of the WHERE block binds as its object
BoundVars(text) ==
  LET patterns == ColumnPatterns(text)
  IN { ObjectVar(patterns[i]) : i \in 1..Len(patterns) }

\* the variables of the FILTER lines and of the GROUP BY and ORDER BY clauses
ModifierVars(text) ==
  LET filters == FilterLines(text)
      clauses == SeqFilter(LAMBDA line : IsGroupByLine(line) \/ IsOrderByLine(line),
                           ClauseLines(text))
  IN UNION ({ VarsIn(filters[i]) : i \in 1..Len(filters) }
            \cup { VarsIn(clauses[i]) : i \in 1..Len(clauses) })

\* C29: in every query translate produces, each variable used in a FILTER,
\* GROUP BY or ORDER BY clause is the object variable of some triple pattern
\* of the WHERE block, also for a column that is not selected and under
\* SELECT *.
C29_ModifierVariablesBound ==
  (TranslateEnded /\ outcome.kind = "text")
    => ModifierVars(outcome.text) \subseteq BoundVars(outcome.text)

\* the same for queries whose conditions, grouping keys and ordering keys
\* are all on selected columns
C29_SelectedColumnsBound ==
  (/\ TranslateEnded /\ outcome.kind = "text"
   /\ LET selected == { result.columns[i].name : i \in 1..Len(result.columns) } \ {"*"}
      IN /\ \A k \in 1..Len(result.where_conditions) :
              /\ result.where_conditions[k].column # None
              /\ result.where_conditions[k].column[1] \in selected
         /\ \A k \in 1..Len(result.group_by) : result.group_by[k] \in selected
         /\ \A k \in 1..Len(result.order_by) : result.order_by[k].column \in selected
         /\ result.group_by # <<>>
            \/ \A i \in 1..Len(result.columns) :
                 result.columns[i].aggregate # None => result.columns[i].name # "*")
    => ModifierVars(outcome.text) \subseteq BoundVars(outcome.text)

\* C30: in any interleaving of get_sparql_client and close_sparql_client on
\* the event loop, get_sparql_client never returns a client whose close has
\* been started, and the get_sparql_client that follows a completed
\* close_sparql_client returns a fresh client.
C30_NoClosingClientReturned ==
  /\ \A i \in 1..Len(log) : log[i].op = "get" => log[i]._http_client = "open"
  /\ \A i \in 2..Len(log) :
       (log[i].op = "get" /\ log[i - 1].op = "close") => log[i].fresh

\* the second half alone: after a close_sparql_client has returned, the next
\* get_sparql_client returns a client it has just created
C30_FreshAfterClose ==
  \A i \in 2..Len(log) :
    (log[i].op = "get" /\ log[i - 1].op = "close") => log[i].fresh

C30_FreshAfterCloseReached ==
  \E i \in 2..Len(log) :
    /\ log[i].op = "get" /\ log[i].fresh
    /\ log[i - 1].op = "close" /\ log[i - 1].client # 0

====
